---- MODULE Spec2Model ----
(***************************************************************************)
(* Model of the chat page (src/src/pages/ChatView.tsx): the conversation   *)
(* store, the send orchestrator, the stream decoder and the history        *)
(* window.  Text is a sequence of one-character strings, so that trimming, *)
(* line splitting and prefix tests are computed character by character.    *)
(*                                                                         *)
(* Scheduling: every handler runs to its first await in one step (the page *)
(* is single-threaded), and a handler sees the state committed by the      *)
(* latest render, not its own pending updates.                             *)
(***************************************************************************)
EXTENDS Integers, Sequences, FiniteSets, TLC

VARIABLES
    conversations,       \* useState<Conversation[]>: sequence of conversations
    activeConvId,        \* useState<string | null>
    input,               \* composer text
    attachments,         \* composer's pending attachments
    isLoading,           \* loading flag
    proxyStatus,         \* "checking" until the status query answers, then "running" or "stopped"
    abortControllerRef,  \* Null or the controller (send number) it holds
    aborted,             \* controllers on which abort() was called
    sends,               \* one record per handleSend call that reached fetchStream
    toasts,              \* sends for which an error notification was shown
    nextId,              \* source of crypto.randomUUID() and Date.now() values
    dec,                 \* stream decoder run on a fixed source (SpecDecoder)
    hist,                \* history-window computation on a message list (SpecHist)
    uploads,             \* processFiles calls whose file reads have not all settled
    seg                  \* content segmentation of a message body (SpecSegment)

vars == <<conversations, activeConvId, input, attachments, isLoading, proxyStatus,
          abortControllerRef, aborted, sends, toasts, nextId,  dec, hist, uploads, seg>>

\* null / undefined for ids (ids are positive)
Null == 0

\* undefined error text
NoError == ""

-----------------------------------------------------------------------------
(* Bounds of the model *)

MaxSends == 2      \* handleSend calls that reach the transport
MaxUuid == 2       \* createConversation is offered while at most this many ids were drawn
MaxTurns == 6      \* turns of a message list given to the history window
MaxConvs == 5      \* conversations created in the sidebar alone (SpecStore)
MaxSwitchSends == 1   \* sends of SpecSwitch
MaxSwitchUuid == 4    \* as MaxUuid, for SpecSwitch
MaxAttachments == 1   \* pending attachments of the composer (SpecSwitch)
MaxUploads == 2       \* processFiles calls (SpecCompose)
MaxPieces == 2        \* pieces of a rendered message body (SpecSegment)
MaxRoundTripSends == 1   \* sends of SpecRoundTrip

-----------------------------------------------------------------------------
(* Text *)

LF == "\n"

IsWhitespace(c) == c \in {" ", "\n", "\r", "\t"}

\* String.prototype.trim
Trim(s) ==
    LET keep == {i \in 1..Len(s) : ~IsWhitespace(s[i])}
    IN  IF keep = {} THEN <<>>
        ELSE LET lo == CHOOSE i \in keep : \A j \in keep : i <= j
                 hi == CHOOSE i \in keep : \A j \in keep : j <= i
             IN  SubSeq(s, lo, hi)

StartsWith(s, p) == Len(s) >= Len(p) /\ SubSeq(s, 1, Len(p)) = p

EndsWith(s, p) == Len(s) >= Len(p) /\ SubSeq(s, Len(s) - Len(p) + 1, Len(s)) = p

\* String.prototype.slice(n)
SliceFrom(s, n) == SubSeq(s, n + 1, Len(s))

\* String.prototype.split('\n'): always at least one piece
RECURSIVE Split(_)
Split(s) ==
    LET nl == {i \in 1..Len(s) : s[i] = LF}
    IN  IF nl = {} THEN <<s>>
        ELSE LET k == CHOOSE i \in nl : \A j \in nl : i <= j
             IN  <<SubSeq(s, 1, k - 1)>> \o Split(SubSeq(s, k + 1, Len(s)))

RECURSIVE Flatten(_)
Flatten(ss) == IF ss = <<>> THEN <<>> ELSE Head(ss) \o Flatten(Tail(ss))

-----------------------------------------------------------------------------
(* Stream decoder: the read loop of fetchStream *)

DataPrefix == <<"d", "a", "t", "a", ":", " ">>
DoneSentinel == <<"[", "D", "O", "N", "E", "]">>

JsonContentOpen == <<"{", "\"", "c", "h", "o", "i", "c", "e", "s", "\"", ":", "[", "{", "\"", "d", "e", "l", "t", "a", "\"", ":", "{", "\"", "c", "o", "n", "t", "e", "n", "t", "\"", ":", "\"">>
JsonContentClose == <<"\"", "}", "}", "]", "}">>
JsonRoleOnly == <<"{", "\"", "c", "h", "o", "i", "c", "e", "s", "\"", ":", "[", "{", "\"", "d", "e", "l", "t", "a", "\"", ":", "{", "\"", "r", "o", "l", "e", "\"", ":", "\"", "a", "s", "s", "i", "s", "t", "a", "n", "t", "\"", "}", "}", "]", "}">>
JsonMalformed == <<"{", "\"", "c", "h", "o", "i", "c", "e", "s", "\"", ":", "[", "{", "\"", "d", "e", "l">>

\* JSON.parse followed by parsed.choices?.[0]?.delta?.content || '', on the
\* record shapes a completions stream carries: a content delta, a delta
\* without content, and text that is no JSON (ok = FALSE: JSON.parse throws).
\* JSON.parse skips white space around the value.
ParseDelta(data) ==
    LET d == Trim(data)
        inner == SubSeq(d, Len(JsonContentOpen) + 1, Len(d) - Len(JsonContentClose))
    IN  IF d = JsonRoleOnly THEN [ok |-> TRUE, delta |-> <<>>]
        ELSE IF /\ StartsWith(d, JsonContentOpen)
                /\ EndsWith(d, JsonContentClose)
                /\ Len(d) >= Len(JsonContentOpen) + Len(JsonContentClose)
                /\ \A i \in 1..Len(inner) : inner[i] \notin {"\"", "\\", LF}
             THEN [ok |-> TRUE, delta |-> inner]
             ELSE [ok |-> FALSE, delta |-> <<>>]

\* Mutant: the test if (delta) left out
LineDeltasEmitEmpty(line) ==
    LET trimmed == Trim(line)
    IN  IF trimmed = <<>> \/ ~StartsWith(trimmed, DataPrefix) THEN <<>>
        ELSE LET data == SliceFrom(trimmed, 6)
             IN  IF data = DoneSentinel THEN <<>>
                 ELSE LET parsed == ParseDelta(data)
                      IN  IF parsed.ok THEN <<parsed.delta>> ELSE <<>>

\* The body of the for loop over one complete line: the delta texts it emits
\* (none or one).
LineDeltas(line) ==
    LET trimmed == Trim(line)
    IN  IF trimmed = <<>> \/ ~StartsWith(trimmed, DataPrefix) THEN <<>>
        ELSE LET data == SliceFrom(trimmed, 6)
             IN  IF data = DoneSentinel THEN <<>>
                 ELSE LET parsed == ParseDelta(data)
                      IN  IF parsed.ok /\ parsed.delta # <<>>
                          THEN <<parsed.delta>>
                          ELSE <<>>

\* A data line whose payload JSON.parse rejects
IsMalformedLine(line) ==
    LET trimmed == Trim(line)
    IN  /\ StartsWith(trimmed, DataPrefix)
        /\ SliceFrom(trimmed, 6) # DoneSentinel
        /\ ~ParseDelta(SliceFrom(trimmed, 6)).ok

\* Mutant: the try block around the whole for loop, so that a malformed
\* record ends the loop over the lines of its chunk
RECURSIVE LinesDeltasStopAtMalformed(_)
LinesDeltasStopAtMalformed(lines) ==
    IF lines = <<>> \/ IsMalformedLine(Head(lines)) THEN <<>>
    ELSE LineDeltas(Head(lines)) \o LinesDeltasStopAtMalformed(Tail(lines))

RECURSIVE LinesDeltas(_)
LinesDeltas(lines) ==
    IF lines = <<>> THEN <<>>
    ELSE LineDeltas(Head(lines)) \o LinesDeltas(Tail(lines))

\* Mutant: the incomplete last line is dropped instead of kept
PopBufferDropped(lines) == <<>>

\* buffer = lines.pop() || ''
PopBuffer(lines) == lines[Len(lines)]

\* One iteration of the while loop on a chunk that is not the end of the
\* source: the new buffer and the delta texts emitted, in order.
DecodeChunk(buffer, chunk) ==
    LET lines == Split(buffer \o chunk)
    IN  [buffer |-> PopBuffer(lines),
         deltas |-> LinesDeltas(SubSeq(lines, 1, Len(lines) - 1))]

-----------------------------------------------------------------------------
(* Conversation store *)

HistoryLimit == 10
TitleLimit == 40

NewChatTitle == <<"N", "e", "w", " ", "C", "h", "a", "t">>
Ellipsis == <<".", ".", ".">>

Running == proxyStatus = "running"

\* conversations.find(c => c.id === id) || null, as an index (0 when absent)
FindConv(convs, id) ==
    IF \E i \in 1..Len(convs) : convs[i].id = id
    THEN CHOOSE i \in 1..Len(convs) : convs[i].id = id
    ELSE 0

MessagesOf(convs, id) ==
    IF FindConv(convs, id) = 0 THEN <<>> ELSE convs[FindConv(convs, id)].messages

\* const messages = activeConversation?.messages || []
ActiveMessages == MessagesOf(conversations, activeConvId)

NewConversation(id) ==
    [id |-> id, title |-> NewChatTitle, messages |-> <<>>]

\* Mutant: the update without the test on the conversation id
UpdateConversationMessagesAll(convs, convId, updated) ==
    [i \in 1..Len(convs) |-> [convs[i] EXCEPT !.messages = updated]]

\* setConversations(prev => prev.map(c => c.id === convId
\*     ? {...c, messages: updater(c.messages), updatedAt: Date.now()} : c))
\* with updated = updater(c.messages) for the conversation convId
UpdateConversationMessages(convs, convId, updated) ==
    [i \in 1..Len(convs) |->
        IF convs[i].id = convId
        THEN [convs[i] EXCEPT !.messages = updated]
        ELSE convs[i]]

\* Mutant: the title left as it is
UpdateConversationTitleKeeps(convs, convId, firstMessage) == convs

UpdateConversationTitle(convs, convId, firstMessage) ==
    LET title == IF Len(firstMessage) > TitleLimit
                 THEN SubSeq(firstMessage, 1, TitleLimit) \o Ellipsis
                 ELSE firstMessage
    IN  [i \in 1..Len(convs) |->
            IF convs[i].id = convId THEN [convs[i] EXCEPT !.title = title]
            ELSE convs[i]]

\* Mutant: the messages rebuilt from id, role and content, without the rest
SetContentRebuilt(convs, convId, messageId, content) ==
    LET msgs == MessagesOf(convs, convId)
    IN  UpdateConversationMessages(convs, convId,
            [k \in 1..Len(msgs) |->
                IF msgs[k].id = messageId
                THEN [msgs[k] EXCEPT !.content = content, !.images = <<>>]
                ELSE [msgs[k] EXCEPT !.images = <<>>]])

\* Mutant: the content written to every assistant message of the conversation
SetContentEveryAssistant(convs, convId, messageId, content) ==
    LET msgs == MessagesOf(convs, convId)
    IN  UpdateConversationMessages(convs, convId,
            [k \in 1..Len(msgs) |->
                IF msgs[k].role = "assistant"
                THEN [msgs[k] EXCEPT !.content = content]
                ELSE msgs[k]])

\* msgs.map(m => m.id === messageId ? {...m, content} : m)
SetContent(convs, convId, messageId, content) ==
    LET msgs == MessagesOf(convs, convId)
    IN  UpdateConversationMessages(convs, convId,
            [k \in 1..Len(msgs) |->
                IF msgs[k].id = messageId
                THEN [msgs[k] EXCEPT !.content = content]
                ELSE msgs[k]])

\* Mutant: the status update without the test on the message id
SetCompletedAll(convs, convId, messageId) ==
    LET msgs == MessagesOf(convs, convId)
    IN  UpdateConversationMessages(convs, convId,
            [k \in 1..Len(msgs) |-> [msgs[k] EXCEPT !.status = "completed"]])

\* Mutant: the status update that puts the message back when it is missing
SetCompletedUpsert(convs, convId, messageId) ==
    LET msgs == MessagesOf(convs, convId)
    IN  IF \E k \in 1..Len(msgs) : msgs[k].id = messageId
        THEN UpdateConversationMessages(convs, convId,
                 [k \in 1..Len(msgs) |->
                     IF msgs[k].id = messageId
                     THEN [msgs[k] EXCEPT !.status = "completed"]
                     ELSE msgs[k]])
        ELSE UpdateConversationMessages(convs, convId,
                 Append(msgs, [id |-> messageId, role |-> "assistant",
                               content |-> <<>>, images |-> <<>>,
                               timestamp |-> messageId, status |-> "completed",
                               error |-> NoError]))

\* msgs.map(m => m.id === messageId ? {...m, status: 'completed'} : m)
SetCompleted(convs, convId, messageId) ==
    LET msgs == MessagesOf(convs, convId)
    IN  UpdateConversationMessages(convs, convId,
            [k \in 1..Len(msgs) |->
                IF msgs[k].id = messageId
                THEN [msgs[k] EXCEPT !.status = "completed"]
                ELSE msgs[k]])

\* Mutant: the error status without the failure text
SetErrorNoText(convs, convId, messageId, text) ==
    LET msgs == MessagesOf(convs, convId)
    IN  UpdateConversationMessages(convs, convId,
            [k \in 1..Len(msgs) |->
                IF msgs[k].id = messageId
                THEN [msgs[k] EXCEPT !.status = "error"]
                ELSE msgs[k]])

\* msgs.map(m => m.id === messageId
\*     ? {...m, status: 'error', error: error.toString()} : m)
SetError(convs, convId, messageId, text) ==
    LET msgs == MessagesOf(convs, convId)
    IN  UpdateConversationMessages(convs, convId,
            [k \in 1..Len(msgs) |->
                IF msgs[k].id = messageId
                THEN [msgs[k] EXCEPT !.status = "error", !.error = text]
                ELSE msgs[k]])

-----------------------------------------------------------------------------
(* History window: the first part of fetchStream *)

\* Mutant: the filter without the status test
IsValidHistoryAnyStatus(m) == Trim(m.content) # <<>> \/ Len(m.images) > 0

IsValidHistory(m) ==
    m.status = "completed" /\ (Trim(m.content) # <<>> \/ Len(m.images) > 0)

ValidHistory(msgs) == SelectSeq(msgs, IsValidHistory)

\* Array.prototype.slice(-n)
SliceLast(s, n) == IF Len(s) <= n THEN s ELSE SubSeq(s, Len(s) - n + 1, Len(s))

\* Mutant: the cut to the last 10 before the filter
HistoryWindowCutFirst(msgs) ==
    SelectSeq(SliceLast(msgs, 10), IsValidHistory)

HistoryWindow(msgs) == SliceLast(ValidHistory(msgs), HistoryLimit)

\* One entry of the request: plain text, or a list of parts when images exist
RequestEntry(m) ==
    IF Len(m.images) > 0
    THEN [role |-> m.role,
          content |-> <<[type |-> "text", text |-> m.content]>> \o
                      [k \in 1..Len(m.images) |->
                          [type |-> "image_url", url |-> m.images[k]]]]
    ELSE [role |-> m.role, content |-> m.content]

History(msgs) ==
    LET w == HistoryWindow(msgs)
    IN  [k \in 1..Len(w) |-> RequestEntry(w[k])]

\* Mutant: the history taken from the list that already holds the new turn
RequestMessagesAfterAppend(msgs, userMessage) ==
    History(msgs \o <<userMessage>>) \o <<RequestEntry(userMessage)>>

\* messages: [...history, {role: 'user', content: currentMessageContent}]
RequestMessages(msgs, userMessage) ==
    History(msgs) \o <<RequestEntry(userMessage)>>

-----------------------------------------------------------------------------
(* Composer and transport inputs of the model *)

Hel == <<"H", "e", "l">>
Lo == <<"l", "o">>
Hi == <<"h", "i">>

\* SUGGESTIONS[0].text
Suggestion == <<"E", "x", "p", "l", "a", "i", "n", " ", "h", "o", "w", " ", "A", "P", "I", " ", "p", "r", "o", "x", "i", "e", "s", " ", "w", "o", "r", "k">>

\* Texts typed into the composer
Inputs == {Hi}

JsonContent(t) == JsonContentOpen \o t \o JsonContentClose

DataLine(payload) == DataPrefix \o payload \o <<LF>>

\* The chunks of a response body, in order: a malformed record, the record
\* "Hel", the [DONE] record and after it the record "lo", cut in the middle
\* of the last line.  The source may end or fail after any chunk.
Body == <<DataLine(JsonMalformed) \o DataLine(JsonContent(Hel)) \o
          DataLine(DoneSentinel) \o DataPrefix,
          JsonContent(Lo) \o <<LF>>>>

\* Failures of the transport call, as thrown
ApiError == [name |-> "Error", message |-> "API Error: 500 - upstream"]
NoBodyError == [name |-> "Error", message |-> "No response body"]
NetworkError == [name |-> "TypeError", message |-> "Failed to fetch"]
AbortError == [name |-> "AbortError", message |-> "The user aborted a request."]

\* Nothing thrown yet
NoFailure == [name |-> "", message |-> ""]

FetchErrors == {ApiError, NoBodyError}
ReadErrors == {NetworkError}

\* error.toString()
ErrorToString(e) == e.name \o ": " \o e.message

-----------------------------------------------------------------------------
(* Initial state *)

IdleDec == [stream |-> <<>>, pos |-> 0, buffer |-> <<>>, emitted |-> <<>>,
            done |-> TRUE, cuts |-> {}]

IdleHist == [msgs |-> <<>>, window |-> <<>>, entries |-> <<>>, pc |-> "idle"]

IdleSeg == [content |-> <<>>, pieces |-> 0, parts |-> <<>>, blocks |-> <<>>,
            pc |-> "idle"]

Init ==
    /\ conversations = <<>>
    /\ activeConvId = Null
    /\ input = <<>>
    /\ attachments = <<>>
    /\ isLoading = FALSE
    /\ proxyStatus = "checking"
    /\ abortControllerRef = Null
    /\ aborted = {}
    /\ sends = <<>>
    /\ toasts = {}
    /\ nextId = 1
    /\ dec = IdleDec
    /\ hist = IdleHist
    /\ uploads = <<>>
    /\ seg = IdleSeg

-----------------------------------------------------------------------------
(* What the page offers: the chat is rendered only once the status query   *)
(* has answered "running"                                                  *)

ChatShown == Running

\* <textarea disabled={isLoading && !proxyStatus?.running}>
TextareaEnabled == ~(isLoading /\ ~Running)

\* {isLoading ? <button onClick={handleStop}> : <button onClick={handleSend}>}
StopButtonShown == isLoading

SendButtonEnabled ==
    /\ ~isLoading
    /\ ~((Trim(input) = <<>> /\ attachments = <<>>) \/ ~Running)

-----------------------------------------------------------------------------
(* checkProxyStatus *)

CheckProxyStatus ==
    /\ proxyStatus = "checking"
    /\ proxyStatus' \in {"running", "stopped"}
    /\ UNCHANGED <<conversations, activeConvId, input, attachments, isLoading,
                   abortControllerRef, aborted, sends, toasts, nextId, 
                   dec, hist, uploads, seg>>

-----------------------------------------------------------------------------
(* Conversation management *)

\* Mutant: the new conversation put at the end of the collection
CreateConversationAtEnd(bound) ==
    /\ ChatShown
    /\ nextId <= bound
    /\ conversations' = conversations \o <<NewConversation(nextId)>>
    /\ activeConvId' = nextId
    /\ input' = <<>>
    /\ attachments' = <<>>
    /\ nextId' = nextId + 1
    /\ UNCHANGED <<isLoading, proxyStatus, abortControllerRef, aborted, sends,
                   toasts, dec, hist, uploads, seg>>

\* createConversation, offered while fewer than bound ids were drawn
CreateConversationWithin(bound) ==
    /\ ChatShown
    /\ nextId <= bound
    /\ conversations' = <<NewConversation(nextId)>> \o conversations
    /\ activeConvId' = nextId
    /\ input' = <<>>
    /\ attachments' = <<>>
    /\ nextId' = nextId + 1
    /\ UNCHANGED <<isLoading, proxyStatus, abortControllerRef, aborted, sends,
                   toasts, dec, hist, uploads, seg>>

CreateConversation == CreateConversationWithin(MaxUuid)

\* prev.filter(c => c.id !== id)
RemoveConv(convs, id) ==
    LET keep(c) == c.id # id IN SelectSeq(convs, keep)

\* Mutant: the last remaining conversation becomes the active one
DeleteConversationLast(id) ==
    /\ ChatShown
    /\ conversations' = RemoveConv(conversations, id)
    /\ activeConvId' =
          IF activeConvId = id
          THEN LET remaining == RemoveConv(conversations, id)
               IN  IF Len(remaining) > 0 THEN remaining[Len(remaining)].id
                   ELSE Null
          ELSE activeConvId
    /\ UNCHANGED <<input, attachments, isLoading, proxyStatus,
                   abortControllerRef, aborted, sends, toasts, nextId,
                   dec, hist, uploads, seg>>

\* Mutant: the conversation removed, the active id left as it is
DeleteConversationKeepActive(id) ==
    /\ ChatShown
    /\ conversations' = RemoveConv(conversations, id)
    /\ UNCHANGED <<activeConvId, input, attachments, isLoading, proxyStatus,
                   abortControllerRef, aborted, sends, toasts, nextId,
                   dec, hist, uploads, seg>>

DeleteConversation(id) ==
    /\ ChatShown
    /\ conversations' = RemoveConv(conversations, id)
    /\ activeConvId' =
          IF activeConvId = id
          THEN LET remaining == RemoveConv(conversations, id)
               IN  IF Len(remaining) > 0 THEN remaining[1].id ELSE Null
          ELSE activeConvId
    /\ UNCHANGED <<input, attachments, isLoading, proxyStatus,
                   abortControllerRef, aborted, sends, toasts, nextId, 
                   dec, hist, uploads, seg>>

\* onClick={() => setActiveConvId(conv.id)}
SelectConversation(id) ==
    /\ ChatShown
    /\ activeConvId # id
    /\ activeConvId' = id
    /\ UNCHANGED <<conversations, input, attachments, isLoading, proxyStatus,
                   abortControllerRef, aborted, sends, toasts, nextId, 
                   dec, hist, uploads, seg>>

\* The button is rendered when messages.length > 0; confirm() answered yes
HandleClearChat ==
    /\ ChatShown
    /\ Len(ActiveMessages) > 0
    /\ activeConvId # Null
    /\ conversations' =
           UpdateConversationMessages(conversations, activeConvId, <<>>)
    /\ UNCHANGED <<activeConvId, input, attachments, isLoading, proxyStatus,
                   abortControllerRef, aborted, sends, toasts, nextId, 
                   dec, hist, uploads, seg>>

HandleInput(text) ==
    /\ ChatShown
    /\ TextareaEnabled
    /\ input # text
    /\ input' = text
    /\ UNCHANGED <<conversations, activeConvId, attachments, isLoading,
                   proxyStatus, abortControllerRef, aborted, sends, toasts,
                   nextId,  dec, hist, uploads, seg>>

-----------------------------------------------------------------------------
(* handleSend, up to the fetch call of fetchStream *)

IsImage(a) == a.type = "image"
IsFile(a) == a.type = "file"

FileOpen == <<"-", "-", "-", " ", "F", "i", "l", "e", ":", " ">>
FileEndOpen == <<"-", "-", "-", " ", "E", "n", "d", " ", "o", "f", " ", "F", "i", "l", "e", " ">>
DelimClose == <<" ", "-", "-", "-">>

\* `\n\n--- File: ${f.name} ---\n${f.content}\n--- End of File ${f.name} ---`
FileBlockText(f) ==
    <<LF, LF>> \o FileOpen \o f.name \o DelimClose \o <<LF>> \o f.content \o
    <<LF>> \o FileEndOpen \o f.name \o DelimClose

\* attachedFiles.map(...).join('\n')
RECURSIVE JoinFileBlocks(_)
JoinFileBlocks(files) ==
    IF files = <<>> THEN <<>>
    ELSE IF Len(files) = 1 THEN FileBlockText(files[1])
    ELSE FileBlockText(files[1]) \o <<LF>> \o JoinFileBlocks(Tail(files))

AttachedImages(atts) ==
    LET imgs == SelectSeq(atts, IsImage)
    IN  [k \in 1..Len(imgs) |-> imgs[k].content]

\* Mutant: the attached files left out of the message text
FinalContentTextOnly(text, atts) == Trim(text)

FinalContent(text, atts) == Trim(text) \o JoinFileBlocks(SelectSeq(atts, IsFile))

UserMessage(id, text, atts) ==
    [id |-> id, role |-> "user", content |-> FinalContent(text, atts),
     images |-> AttachedImages(atts), timestamp |-> id,
     status |-> "completed", error |-> NoError]

AssistantMessage(id) ==
    [id |-> id, role |-> "assistant", content |-> <<>>, images |-> <<>>,
     timestamp |-> id, status |-> "streaming", error |-> NoError]

\* Mutant: the user message appended alone, the stub left to a later update
AppendTurnUserOnly(convs, convId, userMessage, assistantMessage) ==
    UpdateConversationMessages(convs, convId,
        MessagesOf(convs, convId) \o <<userMessage>>)

\* Mutant: the stub put in front of the user message
AppendTurnAssistantFirst(convs, convId, userMessage, assistantMessage) ==
    LET msgs == MessagesOf(convs, convId)
        first == Len(msgs) = 0
        appended == UpdateConversationMessages(convs, convId,
                        msgs \o <<assistantMessage, userMessage>>)
    IN  IF first /\ FindConv(convs, convId) # 0
        THEN UpdateConversationTitle(appended, convId, userMessage.content)
        ELSE appended

\* updateConversationMessages(convId, msgs => { if (msgs.length === 0)
\*     updateConversationTitle(convId, finalContent);
\*     return [...msgs, userMessage, assistantMessage]; })
AppendTurn(convs, convId, userMessage, assistantMessage) ==
    LET msgs == MessagesOf(convs, convId)
        first == Len(msgs) = 0
        appended == UpdateConversationMessages(convs, convId,
                        msgs \o <<userMessage, assistantMessage>>)
    IN  IF first /\ FindConv(convs, convId) # 0
        THEN UpdateConversationTitle(appended, convId, userMessage.content)
        ELSE appended

\* Mutant: the guard without the test on the backend
SendRejectedBlankOnly(text) == Trim(text) = <<>> /\ attachments = <<>>

\* The first guard of handleSend
SendRejected(text) ==
    (Trim(text) = <<>> /\ attachments = <<>>) \/ ~Running

HandleSend(text) ==
    IF SendRejected(text) THEN UNCHANGED vars
    ELSE
    LET create == activeConvId = Null
        convId == IF create THEN nextId ELSE activeConvId
        withConv == IF create THEN <<NewConversation(nextId)>> \o conversations
                    ELSE conversations
        uid == IF create THEN nextId + 1 ELSE nextId
        userMessage == UserMessage(uid, text, attachments)
        assistantMessageId == uid + 1
        \* fetchStream reads the conversations of the render that ran the handler
        currentMessages == MessagesOf(conversations, convId)
    IN  IF Trim(userMessage.content) = <<>> /\ userMessage.images = <<>>
        THEN /\ conversations' = withConv
             /\ activeConvId' = convId
             /\ nextId' = uid
             /\ UNCHANGED <<input, attachments, isLoading, proxyStatus,
                            abortControllerRef, aborted, sends, toasts, 
                            dec, hist, uploads, seg>>
        ELSE /\ Len(sends) < MaxSends
             /\ conversations' =
                    AppendTurn(withConv, convId, userMessage,
                               AssistantMessage(assistantMessageId))
             /\ activeConvId' = convId
             /\ input' = <<>>
             /\ attachments' = <<>>
             /\ isLoading' = TRUE
             /\ abortControllerRef' = Len(sends) + 1
             /\ sends' = Append(sends,
                    [convId |-> convId,
                     messageId |-> assistantMessageId,
                     userMessage |-> userMessage,
                     currentAttachments |-> attachments,
                     window |-> HistoryWindow(currentMessages),
                     request |-> RequestMessages(currentMessages, userMessage),
                     pc |-> "fetch",
                     buffer |-> <<>>,
                     assistantContent |-> <<>>,
                     applied |-> <<>>,
                     chunks |-> 0,
                     outcome |-> "pending",
                     thrown |-> NoFailure])
             /\ nextId' = uid + 2
             /\ UNCHANGED <<proxyStatus, aborted, toasts, dec, hist, uploads, seg>>

\* handleKeyDown: Enter without Shift in the textarea
HandleKeyDown ==
    /\ ChatShown
    /\ TextareaEnabled
    /\ HandleSend(input)

\* onClick={() => handleSend()} of the send button
ClickSend ==
    /\ ChatShown
    /\ SendButtonEnabled
    /\ HandleSend(input)

\* onClick={() => handleSend(s.text)}: the chips are rendered while the
\* active message list is empty
ClickSuggestion ==
    /\ ChatShown
    /\ Len(ActiveMessages) = 0
    /\ HandleSend(Suggestion)

-----------------------------------------------------------------------------
(* handleStop *)

\* Mutant: abort() as a toggle of the signal
HandleStopEffectToggle(ref, ab, loading) ==
    IF ref # Null
    THEN [aborted |-> IF ref \in ab THEN ab \ {ref} ELSE ab \cup {ref},
          isLoading |-> ~loading]
    ELSE [aborted |-> ab, isLoading |-> loading]

\* if (abortControllerRef.current) { abortControllerRef.current.abort();
\*     setIsLoading(false); }
\* abort() on a signal that is already aborted does nothing
HandleStopEffect(ref, ab, loading) ==
    IF ref # Null
    THEN [aborted |-> ab \cup {ref}, isLoading |-> FALSE]
    ELSE [aborted |-> ab, isLoading |-> loading]

HandleStop ==
    /\ ChatShown
    /\ StopButtonShown
    /\ LET r == HandleStopEffect(abortControllerRef, aborted, isLoading)
       IN  /\ aborted' = r.aborted
           /\ isLoading' = r.isLoading
    /\ UNCHANGED <<conversations, activeConvId, input, attachments, proxyStatus,
                   abortControllerRef, sends, toasts, nextId,  dec, hist, uploads, seg>>

-----------------------------------------------------------------------------
(* The awaits of handleSend / fetchStream, one step per resumption.  A      *)
(* pending fetch or read of an aborted controller rejects with AbortError   *)
(* and delivers nothing more.                                               *)

Pending(i) == i \in 1..Len(sends) /\ sends[i].pc \in {"fetch", "read"}

\* Mutant: a finally block that resets nothing
FinallyKeeps ==
    /\ isLoading' = isLoading
    /\ abortControllerRef' = abortControllerRef

\* finally { setIsLoading(false); abortControllerRef.current = null; }
Finally ==
    /\ isLoading' = FALSE
    /\ abortControllerRef' = Null

\* await fetch(...) resolves with an ok response that has a body
FetchResponds(i) ==
    /\ Pending(i) /\ sends[i].pc = "fetch"
    /\ i \notin aborted
    /\ sends' = [sends EXCEPT ![i].pc = "read"]
    /\ UNCHANGED <<conversations, activeConvId, input, attachments, isLoading,
                   proxyStatus, abortControllerRef, aborted, toasts, nextId,
                    dec, hist, uploads, seg>>

\* catch (error) with error.name !== 'AbortError'
CatchError(i, e) ==
    /\ conversations' = SetError(conversations, sends[i].convId,
                                 sends[i].messageId, ErrorToString(e))
    /\ toasts' = toasts \cup {i}
    /\ sends' = [sends EXCEPT ![i].pc = "done", ![i].outcome = "error",
                              ![i].thrown = e]
    /\ Finally

\* Mutant: the abort handled like any other failure
CatchAbortAsError(i) ==
    /\ conversations' = SetError(conversations, sends[i].convId,
                                 sends[i].messageId, ErrorToString(AbortError))
    /\ toasts' = toasts \cup {i}
    /\ sends' = [sends EXCEPT ![i].pc = "done", ![i].outcome = "aborted",
                              ![i].thrown = AbortError]
    /\ Finally

\* catch (error) with error.name === 'AbortError'
CatchAbort(i) ==
    /\ conversations' = SetCompleted(conversations, sends[i].convId,
                                     sends[i].messageId)
    /\ sends' = [sends EXCEPT ![i].pc = "done", ![i].outcome = "aborted",
                              ![i].thrown = AbortError]
    /\ UNCHANGED toasts
    /\ Finally

\* fetch rejects (network failure), the response is not ok, or it has no body
FetchFails(i, e) ==
    /\ Pending(i) /\ sends[i].pc = "fetch"
    /\ i \notin aborted
    /\ CatchError(i, e)
    /\ UNCHANGED <<activeConvId, input, attachments, proxyStatus, aborted,
                   nextId,  dec, hist, uploads, seg>>

\* Mutant: the content replaced by the last delta
AccumulateDeltaReplace(assistantContent, delta) == delta

\* assistantContent += delta
AccumulateDelta(assistantContent, delta) == assistantContent \o delta

\* The for loop over the deltas of one chunk: the accumulated content and the
\* conversations after the content update of every delta
RECURSIVE ApplyDeltas(_, _, _, _, _)
ApplyDeltas(convs, convId, messageId, assistantContent, deltas) ==
    IF deltas = <<>> THEN [convs |-> convs, content |-> assistantContent]
    ELSE LET content == AccumulateDelta(assistantContent, Head(deltas))
         IN  ApplyDeltas(SetContent(convs, convId, messageId, content),
                         convId, messageId, content, Tail(deltas))

\* reader.read() resolves with a chunk
\* Mutant: the [DONE] record taken as the end of the answer
ReadChunkDoneFinalizes(i) ==
    /\ Pending(i) /\ sends[i].pc = "read"
    /\ i \notin aborted
    /\ sends[i].chunks < Len(Body)
    /\ LET chunk == Body[sends[i].chunks + 1]
           r == DecodeChunk(sends[i].buffer, chunk)
           a == ApplyDeltas(conversations, sends[i].convId, sends[i].messageId,
                            sends[i].assistantContent, r.deltas)
           lines == Split(sends[i].buffer \o chunk)
           sentinel == \E k \in 1..(Len(lines) - 1) :
                          Trim(lines[k]) = DataPrefix \o DoneSentinel
       IN  /\ conversations' =
                  IF sentinel
                  THEN SetCompleted(a.convs, sends[i].convId, sends[i].messageId)
                  ELSE a.convs
           /\ sends' = [sends EXCEPT ![i].buffer = r.buffer,
                                     ![i].assistantContent = a.content,
                                     ![i].applied = @ \o r.deltas,
                                     ![i].chunks = @ + 1]
    /\ UNCHANGED <<activeConvId, input, attachments, isLoading, proxyStatus,
                   abortControllerRef, aborted, toasts, nextId, dec, hist,
                   uploads, seg>>

ReadChunk(i) ==
    /\ Pending(i) /\ sends[i].pc = "read"
    /\ i \notin aborted
    /\ sends[i].chunks < Len(Body)
    /\ LET r == DecodeChunk(sends[i].buffer, Body[sends[i].chunks + 1])
           a == ApplyDeltas(conversations, sends[i].convId, sends[i].messageId,
                            sends[i].assistantContent, r.deltas)
       IN  /\ conversations' = a.convs
           /\ sends' = [sends EXCEPT ![i].buffer = r.buffer,
                                     ![i].assistantContent = a.content,
                                     ![i].applied = @ \o r.deltas,
                                     ![i].chunks = @ + 1]
    /\ UNCHANGED <<activeConvId, input, attachments, isLoading, proxyStatus,
                   abortControllerRef, aborted, toasts, nextId,  dec, hist, uploads, seg>>

\* reader.read() resolves with done: the loop ends, the message is completed,
\* fetchStream returns and handleSend runs its finally block
ReadDone(i) ==
    /\ Pending(i) /\ sends[i].pc = "read"
    /\ i \notin aborted
    /\ conversations' = SetCompleted(conversations, sends[i].convId,
                                     sends[i].messageId)
    /\ sends' = [sends EXCEPT ![i].pc = "done", ![i].outcome = "completed"]
    /\ Finally
    /\ UNCHANGED <<activeConvId, input, attachments, proxyStatus, aborted,
                   toasts, nextId,  dec, hist, uploads, seg>>

\* reader.read() rejects with a network failure
ReadFails(i, e) ==
    /\ Pending(i) /\ sends[i].pc = "read"
    /\ i \notin aborted
    /\ CatchError(i, e)
    /\ UNCHANGED <<activeConvId, input, attachments, proxyStatus, aborted,
                   nextId,  dec, hist, uploads, seg>>

\* The pending fetch or read of an aborted controller rejects
AbortRejects(i) ==
    /\ Pending(i)
    /\ i \in aborted
    /\ CatchAbort(i)
    /\ UNCHANGED <<activeConvId, input, attachments, proxyStatus, aborted,
                   nextId,  dec, hist, uploads, seg>>

-----------------------------------------------------------------------------
(* The page *)

ConvIds == {conversations[i].id : i \in 1..Len(conversations)}

Next ==
    \/ CheckProxyStatus
    \/ CreateConversation
    \/ \E id \in ConvIds : DeleteConversation(id)
    \/ \E id \in ConvIds : SelectConversation(id)
    \/ HandleClearChat
    \/ \E text \in Inputs : HandleInput(text)
    \/ HandleKeyDown
    \/ ClickSend
    \/ ClickSuggestion
    \/ HandleStop
    \/ \E i \in 1..Len(sends) : FetchResponds(i)
    \/ \E i \in 1..Len(sends) : \E e \in FetchErrors : FetchFails(i, e)
    \/ \E i \in 1..Len(sends) : ReadChunk(i)
    \/ \E i \in 1..Len(sends) : ReadDone(i)
    \/ \E i \in 1..Len(sends) : \E e \in ReadErrors : ReadFails(i, e)
    \/ \E i \in 1..Len(sends) : AbortRejects(i)

Spec == Init /\ [][Next]_vars

\* The pending fetch of send i settles, or its source ends, fails or is
\* aborted
SendSettles(i) ==
    \/ FetchResponds(i)
    \/ \E e \in FetchErrors : FetchFails(i, e)
    \/ ReadDone(i)
    \/ \E e \in ReadErrors : ReadFails(i, e)
    \/ AbortRejects(i)

\* No fetch stays pending for ever and no source goes on for ever; the
\* event loop then resumes the handler
SpecFair == Spec /\ \A i \in 1..MaxSends : WF_vars(SendSettles(i))

-----------------------------------------------------------------------------
(* The stream decoder alone: the read loop of fetchStream on a fixed source *)
(* text, cut into chunks in every possible way                              *)

CRLF == <<"\r", LF>>

\* Three records and the [DONE] record, one per line
StreamPlain ==
    DataLine(JsonContent(Hel)) \o DataLine(JsonContent(Lo)) \o
    DataLine(DoneSentinel)

\* CRLF line ends, blank lines between the records, a record without content
StreamCrlf ==
    DataPrefix \o JsonRoleOnly \o CRLF \o CRLF \o
    DataPrefix \o JsonContent(Hel) \o CRLF \o CRLF \o
    DataPrefix \o JsonContent(Lo) \o CRLF \o CRLF

\* A comment line, a malformed record, a record after [DONE], and a last
\* record that no line break follows
StreamRagged ==
    <<":", "k", LF>> \o DataLine(JsonMalformed) \o DataLine(JsonContent(Hel)) \o
    DataLine(DoneSentinel) \o DataLine(JsonContent(Lo)) \o
    DataPrefix \o JsonContent(Hel)

Streams == {StreamPlain, StreamCrlf, StreamRagged}

CountLF(s) == Cardinality({i \in 1..Len(s) : s[i] = LF})

\* What a cut shows: an empty chunk, a chunk that ends inside a line, a chunk
\* with several line breaks
CutKinds(chunk) ==
    (IF chunk = <<>> THEN {"empty"} ELSE {}) \cup
    (IF chunk # <<>> /\ chunk[Len(chunk)] # LF THEN {"midline"} ELSE {}) \cup
    (IF CountLF(chunk) >= 2 THEN {"multiline"} ELSE {})

IdleMain ==
    /\ conversations = <<>>
    /\ activeConvId = Null
    /\ input = <<>>
    /\ attachments = <<>>
    /\ isLoading = FALSE
    /\ proxyStatus = "checking"
    /\ abortControllerRef = Null
    /\ aborted = {}
    /\ sends = <<>>
    /\ toasts = {}
    /\ nextId = 1
    /\ uploads = <<>>

mainVars == <<conversations, activeConvId, input, attachments, isLoading,
              proxyStatus, abortControllerRef, aborted, sends, toasts, nextId,
              uploads>>

InitDecoder ==
    /\ IdleMain
    /\ hist = IdleHist
    /\ seg = IdleSeg
    /\ \E s \in Streams :
          dec = [stream |-> s, pos |-> 0, buffer |-> <<>>, emitted |-> <<>>,
                 done |-> FALSE, cuts |-> {}]

\* reader.read() resolves with the next n characters of the source
DecRead(n) ==
    /\ ~dec.done
    /\ dec.pos + n <= Len(dec.stream)
    /\ LET chunk == SubSeq(dec.stream, dec.pos + 1, dec.pos + n)
           r == DecodeChunk(dec.buffer, chunk)
       IN  dec' = [dec EXCEPT !.pos = @ + n,
                              !.buffer = r.buffer,
                              !.emitted = @ \o r.deltas,
                              !.cuts = @ \cup CutKinds(chunk)]
    /\ UNCHANGED <<mainVars, hist, seg>>

\* Mutant: the leftover buffer decoded as a last line at the end of the source
DecEndFlush ==
    /\ ~dec.done
    /\ dec.pos = Len(dec.stream)
    /\ dec' = [dec EXCEPT !.done = TRUE,
                           !.emitted = @ \o LineDeltas(dec.buffer)]
    /\ UNCHANGED <<mainVars, hist, seg>>

\* reader.read() resolves with done: the loop ends, the buffer is dropped
DecEnd ==
    /\ ~dec.done
    /\ dec.pos = Len(dec.stream)
    /\ dec' = [dec EXCEPT !.done = TRUE]
    /\ UNCHANGED <<mainVars, hist, seg>>

NextDecoder ==
    \/ \E n \in 0..Len(dec.stream) : DecRead(n)
    \/ DecEnd

SpecDecoder == InitDecoder /\ [][NextDecoder]_vars

-----------------------------------------------------------------------------
(* The history window alone: the first statements of fetchStream on message *)
(* lists longer than the window                                             *)

ImageUri == "data:image/jpeg;base64,AAAA"

UserKinds == {"text", "image"}
AssistantKinds == {"completed", "empty", "error", "streaming"}
TurnKinds == UserKinds \X AssistantKinds

\* The user message of a turn, as handleSend builds it
KindUser(id, kind) ==
    [id |-> id, role |-> "user",
     content |-> IF kind = "text" THEN Hi ELSE <<>>,
     images |-> IF kind = "image" THEN <<ImageUri>> ELSE <<>>,
     timestamp |-> id, status |-> "completed", error |-> NoError]

\* The assistant message of a turn, as its send left it: completed with
\* content, completed without any delta, failed, or still streaming
KindAssistant(id, kind) ==
    [id |-> id, role |-> "assistant",
     content |-> IF kind = "empty" THEN <<>> ELSE Hel,
     images |-> <<>>, timestamp |-> id,
     status |-> IF kind \in {"completed", "empty"} THEN "completed" ELSE kind,
     error |-> IF kind = "error" THEN ErrorToString(ApiError) ELSE NoError]

\* n turns of kind base, except the turns e1 and e2, which are of kind other
TurnList(n, base, other, e1, e2) ==
    LET kind(t) == IF t \in {e1, e2} THEN other ELSE base
    IN  [k \in 1..(2 * n) |->
            IF k % 2 = 1 THEN KindUser(k, kind((k + 1) \div 2)[1])
            ELSE KindAssistant(k, kind(k \div 2)[2])]

InitHist ==
    /\ IdleMain
    /\ dec = IdleDec
    /\ seg = IdleSeg
    /\ \E n \in 0..MaxTurns : \E base \in TurnKinds : \E other \in TurnKinds :
       \E e1 \in 1..MaxTurns : \E e2 \in e1..MaxTurns :
          hist = [msgs |-> TurnList(n, base, other, e1, e2),
                  window |-> <<>>, entries |-> <<>>, pc |-> "ready"]

\* validHistory.slice(-10) and its map to request entries
HistBuild ==
    /\ hist.pc = "ready"
    /\ hist' = [hist EXCEPT !.window = HistoryWindow(hist.msgs),
                            !.entries = History(hist.msgs),
                            !.pc = "done"]
    /\ UNCHANGED <<mainVars, dec, seg>>

NextHist == HistBuild

SpecHist == InitHist /\ [][NextHist]_vars

-----------------------------------------------------------------------------
(* The sidebar alone: conversations created, selected and deleted before    *)
(* any send, so that several conversations exist at once                    *)

NextStore ==
    \/ CheckProxyStatus
    \/ CreateConversationWithin(MaxConvs)
    \/ \E id \in ConvIds : DeleteConversation(id)
    \/ \E id \in ConvIds : SelectConversation(id)
    \/ \E text \in Inputs : HandleInput(text)

SpecStore == Init /\ [][NextStore]_vars

-----------------------------------------------------------------------------
(* The page with conversations created, selected and deleted at any time,   *)
(* also while a stream is running                                           *)

\* An image dropped on the chat, as compressImage returns it
ImageAttachment ==
    [type |-> "image", content |-> ImageUri, name |-> <<"a", ".", "p", "n", "g">>]

\* The files of one drop or file selection, read
AttachBatches == {<<ImageAttachment>>}

\* processFiles, at the end of its reads:
\* Promise.all(promises).then(() => setAttachments(prev => [...prev, ...newAttachments]))
ProcessFilesCommit(batch) ==
    /\ ChatShown
    /\ Len(attachments) + Len(batch) <= MaxAttachments
    /\ attachments' = attachments \o batch
    /\ UNCHANGED <<conversations, activeConvId, input, isLoading, proxyStatus,
                   abortControllerRef, aborted, sends, toasts, nextId,
                   dec, hist, uploads, seg>>

NextSwitch ==
    \/ CheckProxyStatus
    \/ \E batch \in AttachBatches : ProcessFilesCommit(batch)
    \/ CreateConversationWithin(MaxSwitchUuid)
    \/ \E id \in ConvIds : DeleteConversation(id)
    \/ \E id \in ConvIds : SelectConversation(id)
    \/ HandleClearChat
    \/ \E text \in Inputs : HandleInput(text)
    \/ HandleKeyDown /\ Len(sends') <= MaxSwitchSends
    \/ ClickSend /\ Len(sends') <= MaxSwitchSends
    \/ ClickSuggestion /\ Len(sends') <= MaxSwitchSends
    \/ HandleStop
    \/ \E i \in 1..Len(sends) : FetchResponds(i)
    \/ \E i \in 1..Len(sends) : \E e \in FetchErrors : FetchFails(i, e)
    \/ \E i \in 1..Len(sends) : ReadChunk(i)
    \/ \E i \in 1..Len(sends) : ReadDone(i)
    \/ \E i \in 1..Len(sends) : \E e \in ReadErrors : ReadFails(i, e)
    \/ \E i \in 1..Len(sends) : AbortRejects(i)

SpecSwitch == Init /\ [][NextSwitch]_vars

-----------------------------------------------------------------------------
(* The composer: files dropped or selected, read one by one, committed to   *)
(* the pending attachments, and folded into the user message by a send      *)

ImageUriB == "data:image/jpeg;base64,BBBB"

\* The files offered to processFiles. `content` is what the read gives when
\* it succeeds: the compressed data URI of an image, the text of a file.
PhotoA == [isImage |-> TRUE, name |-> <<"p">>, content |-> ImageUri]
PhotoB == [isImage |-> TRUE, name |-> <<"q">>, content |-> ImageUriB]
NotesA == [isImage |-> FALSE, name |-> <<"a">>, content |-> <<"x">>]
NotesB == [isImage |-> FALSE, name |-> <<"b">>, content |-> <<"y">>]

FileLists == {<<PhotoA, NotesA>>, <<NotesB, PhotoB>>}

\* The attachment pushed for file k of call u; the pair stands for
\* crypto.randomUUID()
NewAttachment(u, k, file) ==
    [id |-> <<u, k>>, type |-> IF file.isImage THEN "image" ELSE "file",
     content |-> file.content, name |-> file.name]

\* Mutant: the pending list updated at every read that ends
AllSettledAny(settled, files) == settled # {}

\* Promise.all(promises): every promise of the call has resolved
AllSettled(settled, files) == settled = DOMAIN files

\* processFiles, up to its return: one promise per file, all pending
ProcessFiles(files) ==
    /\ ChatShown
    /\ Len(uploads) < MaxUploads
    /\ uploads' = Append(uploads,
           [files |-> files, settled |-> {}, failed |-> {}, newAttachments |-> <<>>])
    /\ UNCHANGED <<conversations, activeConvId, input, attachments, isLoading,
                   proxyStatus, abortControllerRef, aborted, sends, toasts,
                   nextId, dec, hist, seg>>

\* Mutant: the pending list replaced by the attachments of the call
FileSettlesOverwrites(u, k, ok) ==
    /\ u \in 1..Len(uploads)
    /\ k \in DOMAIN uploads[u].files
    /\ k \notin uploads[u].settled
    /\ LET call == uploads[u]
           pushed == IF ok
                     THEN Append(call.newAttachments,
                                 NewAttachment(u, k, call.files[k]))
                     ELSE call.newAttachments
           settled == call.settled \cup {k}
       IN  /\ uploads' = [uploads EXCEPT ![u] =
                  [call EXCEPT !.settled = settled,
                               !.failed = IF ok THEN @ ELSE @ \cup {k},
                               !.newAttachments = pushed]]
           /\ attachments' = IF AllSettled(settled, call.files)
                             THEN pushed
                             ELSE attachments
    /\ UNCHANGED <<conversations, activeConvId, input, isLoading, proxyStatus,
                   abortControllerRef, aborted, sends, toasts, nextId,
                   dec, hist, seg>>

\* The read of file k of call u ends: compressImage resolves or rejects
\* (.catch(() => resolve())), reader.onloadend has a string or not. The
\* attachment is pushed on newAttachments, the promise resolves, and when it
\* was the last one Promise.all's continuation runs:
\* setAttachments(prev => [...prev, ...newAttachments])
FileSettles(u, k, ok) ==
    /\ u \in 1..Len(uploads)
    /\ k \in DOMAIN uploads[u].files
    /\ k \notin uploads[u].settled
    /\ LET call == uploads[u]
           pushed == IF ok
                     THEN Append(call.newAttachments,
                                 NewAttachment(u, k, call.files[k]))
                     ELSE call.newAttachments
           settled == call.settled \cup {k}
       IN  /\ uploads' = [uploads EXCEPT ![u] =
                  [call EXCEPT !.settled = settled,
                               !.failed = IF ok THEN @ ELSE @ \cup {k},
                               !.newAttachments = pushed]]
           /\ attachments' = IF AllSettled(settled, call.files)
                             THEN attachments \o pushed
                             ELSE attachments
    /\ UNCHANGED <<conversations, activeConvId, input, isLoading, proxyStatus,
                   abortControllerRef, aborted, sends, toasts, nextId,
                   dec, hist, seg>>

\* The remove button of an attachment preview:
\* setAttachments(prev => prev.filter((_, i) => i !== idx))
RemoveAttachment(idx) ==
    /\ ChatShown
    /\ idx \in 1..Len(attachments)
    /\ attachments' = [k \in 1..(Len(attachments) - 1) |->
                          IF k < idx THEN attachments[k] ELSE attachments[k + 1]]
    /\ UNCHANGED <<conversations, activeConvId, input, isLoading, proxyStatus,
                   abortControllerRef, aborted, sends, toasts, nextId,
                   dec, hist, uploads, seg>>

FileIndexes == 1..2

NextCompose ==
    \/ CheckProxyStatus
    \/ \E files \in FileLists : ProcessFiles(files)
    \/ \E u \in 1..Len(uploads) : \E k \in FileIndexes : \E ok \in BOOLEAN :
          FileSettles(u, k, ok)
    \/ \E idx \in 1..Len(attachments) : RemoveAttachment(idx)
    \/ \E text \in Inputs : HandleInput(text)
    \/ HandleKeyDown
    \/ ClickSend
    \/ \E i \in 1..Len(sends) : \E e \in FetchErrors : FetchFails(i, e)

SpecCompose == Init /\ [][NextCompose]_vars

-----------------------------------------------------------------------------
(* renderMessageContent: a message body cut into file blocks and markdown   *)

\* The regular expressions are matched as the engine matches them: leftmost
\* start, lazy quantifiers from the shortest, "." not over a line break.

IsLineTerminator(c) == c \in {LF, "\r"}

Letters ==
    {"a", "b", "c", "d", "e", "f", "g", "h", "i", "j", "k", "l", "m", "n", "o",
     "p", "q", "r", "s", "t", "u", "v", "w", "x", "y", "z",
     "A", "B", "C", "D", "E", "F", "G", "H", "I", "J", "K", "L", "M", "N", "O",
     "P", "Q", "R", "S", "T", "U", "V", "W", "X", "Y", "Z"}

Digits == {"0", "1", "2", "3", "4", "5", "6", "7", "8", "9"}

\* [\w-]
IsWordChar(c) == c \in Letters \cup Digits \cup {"_", "-"}

\* [A-Za-z0-9+/=]
IsBase64Char(c) == c \in Letters \cup Digits \cup {"+", "/", "="}

MatchAt(text, p, pat) ==
    /\ p >= 1
    /\ p + Len(pat) - 1 <= Len(text)
    /\ SubSeq(text, p, p + Len(pat) - 1) = pat

NoLineBreak(text, from, to) == \A i \in from..to : ~IsLineTerminator(text[i])

Least(S) == CHOOSE x \in S : \A y \in S : x <= y

\* " ---\n" after the name of the opening delimiter
OpenClose == DelimClose \o <<LF>>

\* "\n--- End of File "
EndOpen == <<LF>> \o FileEndOpen

\* .*? --- from position c: the lengths the name may have
NameLengths(text, c) ==
    {l \in 0..(Len(text) - c + 1) :
        MatchAt(text, c + l, DelimClose) /\ NoLineBreak(text, c, c + l - 1)}

\* --- File: .*? ---\n from position p: where the body may start
BodyStarts(text, p) ==
    LET n0 == p + Len(FileOpen)
    IN  {n0 + k + Len(OpenClose) : k \in
            {k \in 0..(Len(text) - n0 + 1) :
                MatchAt(text, n0 + k, OpenClose) /\ NoLineBreak(text, n0, n0 + k - 1)}}

\* [\s\S]*?\n--- End of File .*? --- from body start b: where the closing
\* name may start
EndNameStarts(text, b) ==
    {b + j + Len(EndOpen) : j \in
        {j \in 0..(Len(text) - b + 1) :
            /\ MatchAt(text, b + j, EndOpen)
            /\ NameLengths(text, b + j + Len(EndOpen)) # {}}}

\* fileBlockRegex tried at position p: the last position of the match, 0 if
\* there is none
FileBlockEnd(text, p) ==
    IF ~MatchAt(text, p, FileOpen) THEN 0
    ELSE LET good == {b \in BodyStarts(text, p) : EndNameStarts(text, b) # {}}
         IN  IF good = {} THEN 0
             ELSE LET b == Least(good)
                      c == Least(EndNameStarts(text, b))
                  IN  c + Least(NameLengths(text, c)) + Len(DelimClose) - 1

\* Mutant: the matched spans cut out of the result
RECURSIVE SplitFromProseOnly(_, _, _)
SplitFromProseOnly(text, p, q) ==
    IF q > Len(text) THEN <<SubSeq(text, p, Len(text))>>
    ELSE LET e == FileBlockEnd(text, q)
         IN  IF e = 0 THEN SplitFromProseOnly(text, p, q + 1)
             ELSE <<SubSeq(text, p, q - 1)>> \o
                  SplitFromProseOnly(text, e + 1, e + 1)

\* content.split(fileBlockRegex) from position p on, q the position tried
\* next: the text before a match, the match (the capture group), and so on
RECURSIVE SplitFrom(_, _, _)
SplitFrom(text, p, q) ==
    IF q > Len(text) THEN <<SubSeq(text, p, Len(text))>>
    ELSE LET e == FileBlockEnd(text, q)
         IN  IF e = 0 THEN SplitFrom(text, p, q + 1)
             ELSE <<SubSeq(text, p, q - 1), SubSeq(text, q, e)>> \o
                  SplitFrom(text, e + 1, e + 1)

FileParts(content) == SplitFrom(content, 1, 1)

NoMatch == [found |-> FALSE, name |-> <<>>, body |-> <<>>]

\* Mutant: the closing delimiter with any name
FileMatchAtAnyName(text, p) ==
    IF FileBlockEnd(text, p) = 0 THEN NoMatch
    ELSE LET b == Least({b \in BodyStarts(text, p) : EndNameStarts(text, b) # {}})
             c == Least(EndNameStarts(text, b))
         IN  [found |-> TRUE,
              name |-> SubSeq(text, p + Len(FileOpen), b - Len(OpenClose) - 1),
              body |-> SubSeq(text, b, c - Len(EndOpen) - 1)]

\* /--- File: (.*?) ---\n([\s\S]*?)\n--- End of File \1 ---/ tried at p
FileMatchAt(text, p) ==
    IF ~MatchAt(text, p, FileOpen) THEN NoMatch
    ELSE LET n0 == p + Len(FileOpen)
             closing(b) == EndOpen \o SubSeq(text, n0, b - Len(OpenClose) - 1) \o
                           DelimClose
             bodies(b) == {j \in 0..(Len(text) - b + 1) :
                              MatchAt(text, b + j, closing(b))}
             good == {b \in BodyStarts(text, p) : bodies(b) # {}}
         IN  IF good = {} THEN NoMatch
             ELSE LET b == Least(good)
                  IN  [found |-> TRUE,
                       name |-> SubSeq(text, n0, b - Len(OpenClose) - 1),
                       body |-> SubSeq(text, b, b + Least(bodies(b)) - 1)]

\* part.match(...): the leftmost match in the part
FileMatch(part) ==
    LET at == {p \in 1..Len(part) : FileMatchAt(part, p).found}
    IN  IF at = {} THEN NoMatch ELSE FileMatchAt(part, Least(at))

\* The backquote character, written as a tilde: a TLA+ string cannot hold a
\* backquote. No text of the model holds a tilde of its own.
Backquote == "~"

Fence == <<Backquote, Backquote, Backquote>>

\* (?:[\w-]*\n)? after the opening fence at s - 3: where the interior starts
InsideStart(text, s) ==
    LET m == Least({m \in 0..(Len(text) - s + 1) :
                       s + m > Len(text) \/ ~IsWordChar(text[s + m])})
    IN  IF s + m <= Len(text) /\ text[s + m] = LF THEN s + m + 1 ELSE s

\* One image reference and nothing else: !\[[^\]]*\]\([^)]*\) of regex_test.js
\* over the whole text
IsImageReferenceSingle(t) ==
    /\ MatchAt(t, 1, <<"!", "[">>)
    /\ Len(t) >= 5
    /\ t[Len(t)] = ")"
    /\ \E i \in 3..(Len(t) - 2) :
          /\ MatchAt(t, i, <<"]", "(">>)
          /\ \A k \in 3..(i - 1) : t[k] # "]"
          /\ \A k \in (i + 2)..(Len(t) - 1) : t[k] # ")"

\* /^!\[[\s\S]*?\]\([\s\S]*?\)$/
IsImageReference(t) ==
    /\ MatchAt(t, 1, <<"!", "[">>)
    /\ Len(t) >= 5
    /\ t[Len(t)] = ")"
    /\ \E i \in 3..(Len(t) - 2) : MatchAt(t, i, <<"]", "(">>)

\* markdownContent.replace(/FENCE(?:[\w-]*\n)?([\s\S]*?)FENCE/g, ...) from
\* position q on, FENCE being three backquotes
RECURSIVE UnwrapFrom(_, _)
UnwrapFrom(text, q) ==
    LET opens == {o \in q..Len(text) : MatchAt(text, o, Fence)}
    IN  IF opens = {} THEN SubSeq(text, q, Len(text))
        ELSE LET o == Least(opens)
                 i0 == InsideStart(text, o + Len(Fence))
                 closes == {c \in i0..Len(text) : MatchAt(text, c, Fence)}
             IN  IF closes = {} THEN SubSeq(text, q, Len(text))
                 ELSE LET c == Least(closes)
                          inside == SubSeq(text, i0, c - 1)
                          match == SubSeq(text, o, c + Len(Fence) - 1)
                      IN  SubSeq(text, q, o - 1) \o
                          (IF IsImageReference(Trim(inside)) THEN Trim(inside)
                           ELSE match) \o
                          UnwrapFrom(text, c + Len(Fence))

UnwrapFences(text) == UnwrapFrom(text, 1)

DataImage == <<"d", "a", "t", "a", ":", "i", "m", "a", "g", "e", "/">>
Base64Mark == <<";", "b", "a", "s", "e", "6", "4", ",">>

\* /^data:image\/[a-zA-Z]+;base64,[A-Za-z0-9+/=]+$/
IsDataUri(t) ==
    /\ MatchAt(t, 1, DataImage)
    /\ \E m \in 1..Len(t) :
          LET e == Len(DataImage) + m + Len(Base64Mark)
          IN  /\ MatchAt(t, Len(DataImage) + m + 1, Base64Mark)
              /\ \A k \in (Len(DataImage) + 1)..(Len(DataImage) + m) :
                    t[k] \in Letters
              /\ e < Len(t)
              /\ \A k \in (e + 1)..Len(t) : IsBase64Char(t[k])

GeneratedImageOpen ==
    <<"!", "[", "G", "e", "n", "e", "r", "a", "t", "e", "d", " ",
      "I", "m", "a", "g", "e", "]", "(">>

\* The two kinds of element renderMessageContent returns: <details> with
\* the file's name and text, and the markdown given to ReactMarkdown
FileBlock(name, body) == [kind |-> "FileBlock", name |-> name, text |-> body]
ProseBlock(markdownContent) ==
    [kind |-> "ProseBlock", name |-> <<>>, text |-> markdownContent]

\* The body of fileParts.map
RenderPart(part) ==
    LET fileMatch == FileMatch(part)
        unwrapped == UnwrapFences(part)
    IN  IF fileMatch.found THEN FileBlock(fileMatch.name, fileMatch.body)
        ELSE IF IsDataUri(Trim(unwrapped))
        THEN ProseBlock(GeneratedImageOpen \o Trim(unwrapped) \o <<")">>)
        ELSE ProseBlock(unwrapped)

RenderParts(parts) == [i \in 1..Len(parts) |-> RenderPart(parts[i])]

RenderMessageContent(content) == RenderParts(FileParts(content))

\* A file block as handleSend writes it, without the leading blank lines
FileBlockA ==
    <<"-", "-", "-", " ", "F", "i", "l", "e", ":", " ", "a", ".", "t", "x",
      "t", " ", "-", "-", "-", LF, "h", "e", "l", "l", "o", LF, "-", "-",
      "-", " ", "E", "n", "d", " ", "o", "f", " ", "F", "i", "l", "e", " ",
      "a", ".", "t", "x", "t", " ", "-", "-", "-">>

\* Delimiters with two different names
FileBlockMismatch ==
    <<"-", "-", "-", " ", "F", "i", "l", "e", ":", " ", "a", " ", "-", "-",
      "-", LF, "x", LF, "-", "-", "-", " ", "E", "n", "d", " ", "o", "f",
      " ", "F", "i", "l", "e", " ", "b", " ", "-", "-", "-">>

\* Delimiters whose names differ by a code fence around an image reference
FileBlockFenceName ==
    <<"-", "-", "-", " ", "F", "i", "l", "e", ":", " ", Backquote, Backquote, Backquote, "!",
      "[", "]", "(", "u", ")", Backquote, Backquote, Backquote, " ", "-", "-", "-", LF, "x",
      LF, "-", "-", "-", " ", "E", "n", "d", " ", "o", "f", " ", "F", "i",
      "l", "e", " ", "!", "[", "]", "(", "u", ")", " ", "-", "-", "-">>

\* A fenced image reference
FenceImage ==
    <<Backquote, Backquote, Backquote, LF, "!", "[", "x", "]", "(", "u", ")", LF, Backquote, Backquote,
      Backquote>>

\* A fenced piece of code with a language hint
FenceCode ==
    <<Backquote, Backquote, Backquote, "j", "s", LF, "f", "(", "1", ")", LF, Backquote, Backquote, Backquote>>

\* A fence around two image references
FenceTwoImages ==
    <<Backquote, Backquote, Backquote, LF, "!", "[", "x", "]", "(", "u", ")", LF, "!", "[",
      "y", "]", "(", "v", ")", LF, Backquote, Backquote, Backquote>>

\* A fence around prose and an image reference
FenceProseImage ==
    <<Backquote, Backquote, Backquote, LF, "s", "e", "e", " ", "!", "[", "x", "]", "(", "u",
      ")", LF, Backquote, Backquote, Backquote>>

\* A bare data URI
DataUriText ==
    <<"d", "a", "t", "a", ":", "i", "m", "a", "g", "e", "/", "p", "n", "g",
      ";", "b", "a", "s", "e", "6", "4", ",", "A", "A", "=", "=">>

\* An opening delimiter alone
OpenDelimiterB ==
    <<"-", "-", "-", " ", "F", "i", "l", "e", ":", " ", "b", " ", "-", "-",
      "-", LF>>

\* The pieces message bodies are made of
Pieces ==
    {Hi, <<LF>>, OpenDelimiterB, FileBlockA, FileBlockMismatch,
     FileBlockFenceName, FenceImage, FenceCode, FenceTwoImages,
     FenceProseImage, DataUriText}

InitSegment ==
    /\ IdleMain
    /\ dec = IdleDec
    /\ hist = IdleHist
    /\ seg = [IdleSeg EXCEPT !.pc = "content"]

\* The message body grows by one piece
SegAppend(piece) ==
    /\ seg.pc = "content"
    /\ seg.pieces < MaxPieces
    /\ seg' = [seg EXCEPT !.content = @ \o piece, !.pieces = @ + 1]
    /\ UNCHANGED <<mainVars, dec, hist>>

\* The message is rendered
SegRender ==
    /\ seg.pc = "content"
    /\ seg' = [seg EXCEPT !.parts = FileParts(seg.content),
                          !.blocks = RenderMessageContent(seg.content),
                          !.pc = "rendered"]
    /\ UNCHANGED <<mainVars, dec, hist>>

NextSegment ==
    \/ \E piece \in Pieces : SegAppend(piece)
    \/ SegRender

SpecSegment == InitSegment /\ [][NextSegment]_vars

-----------------------------------------------------------------------------
(* Files attached, sent, and the user message of the send rendered *)

\* A file whose text is another file's opening delimiter and a line
NotesNested ==
    [isImage |-> FALSE, name |-> <<"a">>,
     content |-> FileOpen \o <<"c">> \o DelimClose \o <<LF, "z">>]

\* A file with no text
NotesEmpty == [isImage |-> FALSE, name |-> <<"e", ".", "m", "d">>, content |-> <<>>]

\* A file whose text has a line that reads like its own closing delimiter
NotesEndSame ==
    [isImage |-> FALSE, name |-> <<"a">>,
     content |-> <<"x", LF>> \o FileEndOpen \o <<"a">> \o DelimClose \o <<LF, "y">>]

\* A file whose text has a line that reads like another file's closing
\* delimiter
NotesEndOther ==
    [isImage |-> FALSE, name |-> <<"a">>,
     content |-> <<"x", LF>> \o FileEndOpen \o <<"b">> \o DelimClose]

\* The file lists offered to processFiles, one after the other
RoundTripFileLists ==
    <<<<NotesA, NotesB>>, <<PhotoA, NotesA>>, <<NotesNested>>, <<NotesEmpty>>,
      <<NotesEndSame>>, <<NotesEndOther>>>>

\* messages.map(msg => ... renderMessageContent(msg.content)) for the user
\* message of send i
RenderUserMessage(i) ==
    /\ i \in 1..Len(sends)
    /\ seg.pc = "idle"
    /\ LET content == sends[i].userMessage.content
       IN  seg' = [seg EXCEPT !.content = content,
                              !.parts = FileParts(content),
                              !.blocks = RenderMessageContent(content),
                              !.pc = "rendered"]
    /\ UNCHANGED <<mainVars, dec, hist>>

NextRoundTrip ==
    \/ CheckProxyStatus
    \/ \E n \in DOMAIN RoundTripFileLists : ProcessFiles(RoundTripFileLists[n])
    \/ \E u \in 1..Len(uploads) : \E k \in FileIndexes : FileSettles(u, k, TRUE)
    \/ \E text \in Inputs : HandleInput(text)
    \/ ClickSend /\ Len(sends') <= MaxRoundTripSends
    \/ \E i \in 1..Len(sends) : RenderUserMessage(i)

SpecRoundTrip == Init /\ [][NextRoundTrip]_vars

-----------------------------------------------------------------------------
(* Properties *)

Range(f) == {f[k] : k \in DOMAIN f}

\* The assistant message of send i, while it is in its conversation
SendMessage(i) ==
    {m \in Range(MessagesOf(conversations, sends[i].convId)) :
        m.id = sends[i].messageId}

StreamingAssistants(c) ==
    {k \in 1..Len(conversations[c].messages) :
        /\ conversations[c].messages[k].role = "assistant"
        /\ conversations[c].messages[k].status = "streaming"}

\* C1: every conversation holds at most one assistant message whose status
\* is streaming.
C1_OneStreamingPerConversation ==
    \A c \in 1..Len(conversations) : Cardinality(StreamingAssistants(c)) <= 1

\* C2: no send is accepted on a conversation while an earlier send on it is
\* still in flight: two pending sends never share a conversation.
C2_NoInterleavedSends ==
    \A i, j \in 1..Len(sends) :
        (i # j /\ Pending(i) /\ Pending(j)) => sends[i].convId # sends[j].convId

\* C3: a send aborted by the stop signal leaves its assistant message
\* completed, without error text and without notification, its content being
\* the concatenation of the deltas applied before the abort.
C3_AbortCompletes ==
    \A i \in 1..Len(sends) :
        sends[i].outcome = "aborted" =>
            /\ i \notin toasts
            /\ \A m \in SendMessage(i) :
                  /\ m.status = "completed"
                  /\ m.error = NoError
                  /\ m.content = Flatten(sends[i].applied)

C3_Witness ==
    \E i \in 1..Len(sends) :
        /\ sends[i].outcome = "aborted"
        /\ sends[i].applied = <<Hel, Lo>>
        /\ \E m \in SendMessage(i) :
              m.status = "completed" /\ m.content = Hel \o Lo

\* What a message is, apart from the fields a finalization sets
Unfinalized(m) == [m EXCEPT !.status = "", !.error = NoError]

\* C4 (state): a send whose transport call failed leaves its assistant
\* message in status error, the failure text in its error field, the content
\* applied so far kept, and the user notified.
C4_ErrorState ==
    \A i \in 1..Len(sends) :
        sends[i].outcome = "error" =>
            /\ i \in toasts
            /\ sends[i].thrown \in FetchErrors \cup ReadErrors
            /\ \A m \in SendMessage(i) :
                  /\ m.status = "error"
                  /\ m.error = sends[i].thrown.name \o ": " \o sends[i].thrown.message
                  /\ m.content = Flatten(sends[i].applied)

\* C4 (step): the step in which send i fails changes no conversation except
\* in the status and error of the assistant message of send i.
C4_ErrorStep ==
    \A i \in 1..Len(sends) :
        (sends[i].outcome = "pending" /\ sends'[i].outcome = "error") =>
            /\ Len(conversations') = Len(conversations)
            /\ \A c \in 1..Len(conversations) :
                  /\ conversations'[c].id = conversations[c].id
                  /\ conversations'[c].title = conversations[c].title
                  /\ Len(conversations'[c].messages) = Len(conversations[c].messages)
                  /\ \A k \in 1..Len(conversations[c].messages) :
                        LET m == conversations[c].messages[k]
                            n == conversations'[c].messages[k]
                        IN  IF /\ conversations[c].id = sends[i].convId
                               /\ m.id = sends[i].messageId
                            THEN Unfinalized(n) = Unfinalized(m)
                            ELSE n = m

\* C4: a transport failure other than the stop signal finalizes the send's
\* assistant message as error with the failure text, notifies the user,
\* keeps the accumulated content and changes no other message.
C4_TransportErrorFinalizes == [](C4_ErrorState) /\ [][C4_ErrorStep]_vars

C4_Witness ==
    \E i \in 1..Len(sends) :
        /\ sends[i].outcome = "error"
        /\ sends[i].thrown = NetworkError
        /\ sends[i].applied = <<Hel>>
        /\ \E m \in SendMessage(i) : m.status = "error" /\ m.content = Hel
        /\ \E c \in 1..Len(conversations) : Len(conversations[c].messages) >= 4

\* C5 (step): a message that is in its conversation before and after a step
\* changes status only from streaming to completed or to error.
C5_StatusStep ==
    \A c \in 1..Len(conversations) : \A d \in 1..Len(conversations') :
        conversations[c].id = conversations'[d].id =>
            \A m \in Range(conversations[c].messages) :
            \A n \in Range(conversations'[d].messages) :
                (m.id = n.id /\ m.status # n.status) =>
                    /\ m.status = "streaming"
                    /\ n.status \in {"completed", "error"}

\* C5: the status of a message only ever changes from streaming to completed
\* or from streaming to error.
C5_StatusMonotonic == [][C5_StatusStep]_vars

C5_Witness ==
    /\ \E i \in 1..Len(sends) : \E m \in SendMessage(i) :
          sends[i].outcome = "error" /\ m.status = "error"
    /\ \E i \in 1..Len(sends) : \E m \in SendMessage(i) :
          sends[i].outcome = "completed" /\ m.status = "completed"
    /\ \E i, j \in 1..Len(sends) : i # j /\ sends[i].convId = sends[j].convId

\* C6: while a stream is being applied, the content of its message is the
\* in-order concatenation of all deltas applied so far and its status is
\* still streaming.
C6_ContentAccumulates ==
    \A i \in 1..Len(sends) :
        Pending(i) =>
            \A m \in SendMessage(i) :
                /\ m.content = Flatten(sends[i].applied)
                /\ m.status = "streaming"

C6_Witness ==
    \E i \in 1..Len(sends) :
        /\ Pending(i)
        /\ sends[i].applied = <<Hel, Lo>>
        /\ \E m \in SendMessage(i) :
              m.content = <<"H", "e", "l", "l", "o">> /\ m.status = "streaming"

\* C7: however the source text is cut into chunks, the deltas emitted so far
\* are those of decoding the text received so far as one chunk, and at the
\* end of the source they are those of the whole stream decoded as one chunk.
C7_ChunkingIndependent ==
    /\ dec.emitted =
          DecodeChunk(<<>>, SubSeq(dec.stream, 1, dec.pos)).deltas
    /\ dec.done =>
          /\ dec.emitted = DecodeChunk(<<>>, dec.stream).deltas
          /\ dec.emitted = <<Hel, Lo>>

C7_Witness ==
    /\ dec.done
    /\ dec.stream = StreamCrlf
    /\ dec.cuts = {"empty", "midline", "multiline"}
    /\ dec.emitted = <<Hel, Lo>>

\* A message that may enter the history window
Qualifies(m) ==
    /\ m.status = "completed"
    /\ (\E k \in 1..Len(m.content) : m.content[k] \notin {" ", "\n", "\r", "\t"})
          \/ m.images # <<>>

PositionIn(msgs, m) == CHOOSE k \in 1..Len(msgs) : msgs[k] = m

\* C8: the history window holds no message that is sending, streaming or
\* error, no message with blank text and no image, at most 10 entries, and
\* its entries in the order of the message list.
C8_HistoryWindowSafe ==
    hist.pc = "done" =>
        /\ Len(hist.window) <= 10
        /\ Len(hist.entries) = Len(hist.window)
        /\ \A k \in 1..Len(hist.window) :
              /\ hist.window[k] \in Range(hist.msgs)
              /\ hist.window[k].status \notin {"sending", "streaming", "error"}
              /\ Qualifies(hist.window[k])
              /\ hist.entries[k].role = hist.window[k].role
        /\ \A j, k \in 1..Len(hist.window) :
              j < k => PositionIn(hist.msgs, hist.window[j]) <
                       PositionIn(hist.msgs, hist.window[k])

C8_Witness ==
    /\ hist.pc = "done"
    /\ Len(hist.window) = 10
    /\ Len(hist.msgs) > 10
    /\ \E m \in Range(hist.msgs) : m.status = "streaming"
    /\ \E m \in Range(hist.msgs) : m.status = "completed" /\ m.content = <<>>

QualifyingPositions(msgs) == {k \in 1..Len(msgs) : Qualifies(msgs[k])}

\* The positions of the 10 last qualifying messages
RecentQualifying(msgs) ==
    {k \in QualifyingPositions(msgs) :
        Cardinality({j \in QualifyingPositions(msgs) : j > k}) < 10}

\* C9: the history window is exactly the most recent 10 qualifying messages:
\* the filter comes before the cut.
C9_HistoryWindowExact ==
    hist.pc = "done" =>
        /\ {hist.window[k] : k \in 1..Len(hist.window)} =
              {hist.msgs[k] : k \in RecentQualifying(hist.msgs)}
        /\ Len(hist.window) = Cardinality(RecentQualifying(hist.msgs))
        /\ Cardinality(QualifyingPositions(hist.msgs)) >= 10 =>
              Len(hist.window) = 10

C9_Witness ==
    /\ hist.pc = "done"
    /\ Cardinality(QualifyingPositions(hist.msgs)) >= 10
    /\ \E k \in (Len(hist.msgs) - 9)..Len(hist.msgs) :
          k >= 1 /\ ~Qualifies(hist.msgs[k])
    /\ Len(hist.window) = 10

\* C10: a stop signal aborts the transport call of every assistant message
\* that is streaming: in a step that aborts a controller, every pending send
\* whose message is streaming is aborted.
C10_StopAbortsStreaming ==
    [][aborted' # aborted =>
          \A i \in 1..Len(sends) :
              (Pending(i) /\ \E m \in SendMessage(i) : m.status = "streaming")
                  => i \in aborted']_vars

Idle == ~isLoading /\ abortControllerRef = Null

\* Send i has left fetchStream and its assistant message, if it is still in
\* its conversation, is completed or error
Finished(i) ==
    /\ i <= Len(sends)
    /\ sends[i].pc = "done"
    /\ \A m \in SendMessage(i) : m.status \in {"completed", "error"}

\* C12: under fairness every accepted send reaches a state in which it has
\* ended, the loading flag is cleared, the abort handle is released and its
\* assistant message, if still present, is completed or error; and the
\* message of an ended send stays terminal.
C12_SendReturnsToIdle ==
    /\ [](\A i \in 1..Len(sends) : sends[i].pc = "done" => Finished(i))
    /\ [][\A i \in 1..Len(sends) :
              (Pending(i) /\ sends'[i].pc = "done") => (Finished(i) /\ Idle)']_vars
    /\ \A i \in 1..MaxSends :
          (i <= Len(sends)) ~> (Finished(i) /\ Idle)

\* Two sends have ended, one by the stop signal and one by a failure, and
\* the orchestrator is idle
C12_Witness ==
    /\ Idle
    /\ \E i, j \in 1..Len(sends) :
          /\ sends[i].outcome = "aborted" /\ Finished(i)
          /\ sends[j].outcome = "error" /\ Finished(j)
          /\ SendMessage(i) # {} /\ SendMessage(j) # {}

\* A text of white space only
BlankText == <<" ", LF>>

\* C13: in every state, handleSend called with a text of white space only
\* (or no text) while no attachment is pending, or called while the backend
\* is not running, changes nothing: no conversation, no message, the
\* composer, the loading flag, the abort handle and the transport calls all
\* stay as they are.
C13_RejectedSendNoOp ==
    \A text \in {<<>>, BlankText, Hi, Suggestion} :
        (\/ (\A k \in 1..Len(text) : text[k] \in {" ", "\n", "\r", "\t"})
                /\ Len(attachments) = 0
         \/ proxyStatus # "running")
            => ~ENABLED <<HandleSend(text)>>_vars

\* The chat holds a finished turn, the composer is empty, Enter is offered;
\* handleSend(input) changes nothing there, while a send with text is
\* accepted
C13_Witness ==
    /\ proxyStatus = "running"
    /\ TextareaEnabled
    /\ input = <<>>
    /\ attachments = <<>>
    /\ \E i \in 1..Len(sends) : sends[i].outcome = "completed"
    /\ Len(sends) < MaxSends
    /\ ~ENABLED <<HandleSend(input)>>_vars
    /\ ENABLED <<HandleSend(Hi)>>_vars

\* C14 (step): the step that accepts send i turns the message list of its
\* conversation into the old list followed by the user message (completed)
\* and the assistant stub (empty, streaming); no other step makes a message
\* list longer.
C14_AppendStep ==
    /\ \A i \in 1..Len(sends') :
          i > Len(sends) =>
             LET old == MessagesOf(conversations, sends'[i].convId)
                 new == MessagesOf(conversations', sends'[i].convId)
             IN  /\ Len(new) = Len(old) + 2
                 /\ SubSeq(new, 1, Len(old)) = old
                 /\ new[Len(old) + 1] = sends'[i].userMessage
                 /\ new[Len(old) + 1].role = "user"
                 /\ new[Len(old) + 1].status = "completed"
                 /\ new[Len(old) + 2].id = sends'[i].messageId
                 /\ new[Len(old) + 2].role = "assistant"
                 /\ new[Len(old) + 2].content = <<>>
                 /\ new[Len(old) + 2].status = "streaming"
    /\ \A d \in 1..Len(conversations') :
          Len(conversations'[d].messages) >
              Len(MessagesOf(conversations, conversations'[d].id)) =>
                 /\ Len(sends') = Len(sends) + 1
                 /\ sends'[Len(sends')].convId = conversations'[d].id

\* C14 (state): every message list is a sequence of turns, a user message
\* directly followed by the assistant message created with it.
C14_Paired ==
    \A c \in 1..Len(conversations) :
        LET msgs == conversations[c].messages
        IN  /\ Len(msgs) % 2 = 0
            /\ \A k \in 1..Len(msgs) :
                  IF k % 2 = 1
                  THEN msgs[k].role = "user" /\ msgs[k + 1].id = msgs[k].id + 1
                  ELSE msgs[k].role = "assistant"

\* C14: an accepted send appends its turn in one update: the old list, the
\* user message (completed), the assistant stub (empty, streaming); no state
\* shows one of the two without the other or a message between them.
C14_TurnAppendedAtomically == [](C14_Paired) /\ [][C14_AppendStep]_vars

\* A second turn was just appended after a finished one
C14_Witness ==
    \E i \in 1..Len(sends) :
        LET msgs == MessagesOf(conversations, sends[i].convId)
        IN  /\ sends[i].pc = "fetch"
            /\ Len(msgs) = 4
            /\ msgs[2].status = "completed" /\ msgs[2].content = Hel \o Lo
            /\ msgs[3] = sends[i].userMessage
            /\ msgs[4] = AssistantMessage(sends[i].messageId)

\* The sends accepted on conversation id
SendsOn(id) == {i \in 1..Len(sends) : sends[i].convId = id}

\* C15: the title of a conversation is set by the first send accepted on it,
\* to the content of that user message (whole when it has at most 40
\* characters, else its first 40 characters followed by "..."), and no later
\* step changes it.
C15_TitleDerivedOnce ==
    [][\A c \in 1..Len(conversations') :
          LET id == conversations'[c].id
              title == conversations'[c].title
          IN  IF SendsOn(id) # {}
              THEN title = conversations[FindConv(conversations, id)].title
              ELSE \A i \in 1..Len(sends') :
                      sends'[i].convId = id =>
                         LET content == sends'[i].userMessage.content
                         IN  title = IF Len(content) <= 40 THEN content
                                     ELSE SubSeq(content, 1, 40) \o
                                          <<".", ".", ".">>]_vars

\* The positions of conversation id in the collection
PositionsOf(id) == {k \in 1..Len(conversations) : conversations[k].id = id}

\* C16: deleteConversation(id) removes the one conversation id and keeps the
\* others in their order; when id was active, the first remaining
\* conversation becomes active, or none when none remains; when id was not
\* active, the active conversation stays.
C16_DeleteConversation ==
    [][\A id \in ConvIds :
          DeleteConversation(id) =>
             /\ Cardinality(PositionsOf(id)) = 1
             /\ LET k == CHOOSE j \in PositionsOf(id) : TRUE
                    n == Len(conversations)
                IN  /\ conversations' = SubSeq(conversations, 1, k - 1) \o
                                        SubSeq(conversations, k + 1, n)
                    /\ activeConvId = id =>
                          activeConvId' = IF n = 1 THEN Null
                                          ELSE IF k = 1 THEN conversations[2].id
                                          ELSE conversations[1].id
                    /\ activeConvId # id => activeConvId' = activeConvId]_vars

\* Of three conversations the middle one was deleted; the first of the two
\* remaining is active
C16_Witness ==
    /\ nextId = 4
    /\ Len(conversations) = 2
    /\ conversations[1].id = 3 /\ conversations[2].id = 1
    /\ activeConvId = 3

\* C17: createConversation puts one new conversation with an empty message
\* list at the front of the collection and makes it the active one; every
\* conversation that existed is still there, unchanged, one place further.
C17_CreateConversation ==
    [][CreateConversationWithin(MaxSwitchUuid) =>
          /\ Len(conversations') = Len(conversations) + 1
          /\ conversations'[1].messages = <<>>
          /\ conversations'[1].id \notin ConvIds
          /\ activeConvId' = conversations'[1].id
          /\ \A k \in 1..Len(conversations) :
                conversations'[k + 1] = conversations[k]]_vars

\* A conversation was created while the stream of an older conversation is
\* running
C17_Witness ==
    /\ Len(conversations) >= 2
    /\ conversations[1].messages = <<>>
    /\ activeConvId = conversations[1].id
    /\ \E i \in 1..Len(sends) :
          /\ sends[i].pc = "read"
          /\ sends[i].applied = <<Hel>>
          /\ sends[i].convId = conversations[2].id
          /\ conversations[1].id > sends[i].messageId
          /\ Len(conversations[2].messages) = 2

\* C18 (step): a step of send i (a delta applied, a finalization) changes no
\* conversation except in the content, status and error of the assistant
\* message of send i.
C18_FrameStep ==
    \A i \in 1..Len(sends) :
        sends'[i] # sends[i] =>
            /\ Len(conversations') = Len(conversations)
            /\ \A c \in 1..Len(conversations) :
                  /\ conversations'[c].id = conversations[c].id
                  /\ conversations'[c].title = conversations[c].title
                  /\ Len(conversations'[c].messages) = Len(conversations[c].messages)
                  /\ \A k \in 1..Len(conversations[c].messages) :
                        LET m == conversations[c].messages[k]
                            n == conversations'[c].messages[k]
                        IN  IF /\ conversations[c].id = sends[i].convId
                               /\ m.id = sends[i].messageId
                            THEN /\ n.id = m.id /\ n.role = m.role
                                 /\ n.timestamp = m.timestamp
                                 /\ n.images = m.images
                            ELSE n = m

\* C18 (state): every message of a send still has the id, role, timestamp
\* and images it was created with, and the ids of a message list are
\* pairwise different.
C18_CreatedFields ==
    /\ \A i \in 1..Len(sends) :
          \A m \in Range(MessagesOf(conversations, sends[i].convId)) :
              /\ m.id = sends[i].userMessage.id => m = sends[i].userMessage
              /\ m.id = sends[i].messageId =>
                    /\ m.role = "assistant"
                    /\ m.timestamp = sends[i].messageId
                    /\ m.images = <<>>
    /\ \A c \in 1..Len(conversations) :
          \A j, k \in 1..Len(conversations[c].messages) :
              j # k => conversations[c].messages[j].id #
                       conversations[c].messages[k].id

\* C18: delta application and finalization change only the content, status
\* and error of the target message; id, role, timestamp and images of every
\* message stay as created, and message ids are unique in a conversation.
C18_OnlyContentStatusError == [](C18_CreatedFields) /\ [][C18_FrameStep]_vars

\* A send with an image had a delta applied and then failed
C18_Witness ==
    \E i \in 1..Len(sends) :
        /\ sends[i].outcome = "error"
        /\ sends[i].applied = <<Hel>>
        /\ sends[i].userMessage.images = <<ImageUri>>
        /\ \E m \in Range(MessagesOf(conversations, sends[i].convId)) :
              m = sends[i].userMessage
        /\ \E m \in SendMessage(i) : m.status = "error" /\ m.content = Hel

\* C19: a step of send i after its start (a delta applied, a finalization)
\* keeps the collection's conversations and their order and leaves every
\* conversation other than the one the send was started in as it is,
\* whichever conversation is active.
C19_OnlyOwnConversation ==
    [][\A i \in 1..Len(sends) :
          sends'[i] # sends[i] =>
             /\ [c \in 1..Len(conversations') |-> conversations'[c].id] =
                [c \in 1..Len(conversations) |-> conversations[c].id]
             /\ \A c \in 1..Len(conversations) :
                   conversations[c].id # sends[i].convId =>
                      conversations'[c] = conversations[c]
             /\ activeConvId' = activeConvId]_vars

\* The stream of a send was applied and completed while a conversation
\* created after its start was the active one
C19_Witness ==
    \E i \in 1..Len(sends) :
        /\ sends[i].outcome = "completed"
        /\ sends[i].applied = <<Hel, Lo>>
        /\ activeConvId > sends[i].messageId
        /\ ActiveMessages = <<>>
        /\ \E c \in 1..Len(conversations) :
              conversations[c].id = activeConvId /\
              conversations[c].title = NewChatTitle
        /\ \E m \in SendMessage(i) : m.content = Hel \o Lo

\* The deltas of the valid records in the first n chunks of the body
ValidDeltas(n) == IF n = 0 THEN <<>> ELSE IF n = 1 THEN <<Hel>> ELSE <<Hel, Lo>>

\* C20: a record whose payload is no valid JSON is skipped: it emits no
\* delta, it is no failure of the send (the message is not put in error
\* status and gets no error text), and the valid records after it, in the
\* same chunk and in later chunks, are still applied in order.
C20_MalformedRecordSkipped ==
    /\ StartsWith(Body[1], DataLine(JsonMalformed))
    /\ ~ParseDelta(JsonMalformed).ok
    /\ LineDeltas(DataPrefix \o JsonMalformed) = <<>>
    /\ \A i \in 1..Len(sends) :
          /\ sends[i].applied = ValidDeltas(sends[i].chunks)
          /\ sends[i].outcome = "error" =>
                sends[i].thrown \in FetchErrors \cup ReadErrors
          /\ sends[i].outcome \in {"pending", "completed"} =>
                \A m \in SendMessage(i) :
                    /\ m.content = Flatten(ValidDeltas(sends[i].chunks))
                    /\ m.status = IF Pending(i) THEN "streaming" ELSE "completed"
                    /\ m.error = NoError

\* A stream with the malformed record was read to its end
C20_Witness ==
    \E i \in 1..Len(sends) :
        /\ sends[i].outcome = "completed"
        /\ sends[i].chunks = Len(Body)
        /\ IsMalformedLine(DataPrefix \o JsonMalformed)
        /\ \E m \in SendMessage(i) :
              /\ m.content = Hel \o Lo
              /\ m.status = "completed"
              /\ m.error = NoError

\* The text received so far and the position of its last line break
Received == SubSeq(dec.stream, 1, dec.pos)

LastLF ==
    LET nl == {k \in 1..dec.pos : dec.stream[k] = LF}
    IN  IF nl = {} THEN 0 ELSE CHOOSE k \in nl : \A j \in nl : j <= k

\* C21: after each chunk the buffer is the text received after the last line
\* break, and the deltas emitted are those of the lines before it; at the
\* end of the source a non-empty buffer is dropped, so a last record that no
\* line break follows gives no delta.
C21_IncompleteLineNotEmitted ==
    /\ dec.buffer = SubSeq(Received, LastLF + 1, dec.pos)
    /\ \A k \in 1..Len(dec.buffer) : dec.buffer[k] # LF
    /\ dec.emitted = IF LastLF = 0 THEN <<>>
                     ELSE LinesDeltas(Split(SubSeq(Received, 1, LastLF - 1)))
    /\ Len(dec.emitted) <= CountLF(Received)
    /\ (dec.done /\ dec.stream = StreamRagged) =>
          /\ dec.buffer = DataPrefix \o JsonContent(Hel)
          /\ dec.emitted = <<Hel, Lo>>

\* The source ended while the buffer held a whole record without line break
C21_Witness ==
    /\ dec.done
    /\ dec.buffer # <<>>
    /\ LineDeltas(dec.buffer) = <<Hel>>
    /\ dec.emitted = <<Hel, Lo>>
    /\ "midline" \in dec.cuts

\* Number of places of text where pat begins
Occurrences(pat, text) ==
    Cardinality({k \in 1..Len(text) :
        /\ k + Len(pat) - 1 <= Len(text)
        /\ SubSeq(text, k, k + Len(pat) - 1) = pat})

\* The text the files of the composer add to the message, from the last one
RECURSIVE FoldedFiles(_)
FoldedFiles(files) ==
    IF files = <<>> THEN <<>>
    ELSE LET n == Len(files)
             f == files[n]
         IN  FoldedFiles(SubSeq(files, 1, n - 1)) \o
             (IF n > 1 THEN <<LF>> ELSE <<>>) \o <<LF, LF>> \o
             FileOpen \o f.name \o DelimClose \o <<LF>> \o f.content \o <<LF>> \o
             FileEndOpen \o f.name \o DelimClose

\* C22: a send that is accepted empties the composer's pending attachments
\* and folds each of them once into the user message of the turn: the
\* message's images are the contents of the image attachments in composer
\* order, and its text is the trimmed text followed by one
\* "--- File: name ---" ... "--- End of File name ---" block per other
\* attachment, in composer order.
C22_AttachmentsFolded ==
    [][Len(sends') > Len(sends) =>
        LET m == sends'[Len(sends')].userMessage
            imgs == SelectSeq(attachments, IsImage)
            files == SelectSeq(attachments, IsFile)
            msgs == MessagesOf(conversations', sends'[Len(sends')].convId)
        IN  /\ attachments' = <<>>
            /\ Len(m.images) = Len(imgs)
            /\ \A k \in 1..Len(imgs) : m.images[k] = imgs[k].content
            /\ m.content = Trim(input) \o FoldedFiles(files)
            /\ Occurrences(FileOpen, m.content) = Len(files)
            /\ Occurrences(FileEndOpen, m.content) = Len(files)
            /\ Len(imgs) + Len(files) = Len(attachments)
            /\ Len(msgs) >= 2
            /\ msgs[Len(msgs) - 1] = m]_vars

TwoFileBlocks ==
    <<LF, LF, "-", "-", "-", " ", "F", "i", "l", "e", ":", " ", "a", " ",
      "-", "-", "-", LF, "x", LF, "-", "-", "-", " ", "E", "n", "d", " ",
      "o", "f", " ", "F", "i", "l", "e", " ", "a", " ", "-", "-", "-", LF,
      LF, LF, "-", "-", "-", " ", "F", "i", "l", "e", ":", " ", "b", " ",
      "-", "-", "-", LF, "y", LF, "-", "-", "-", " ", "E", "n", "d", " ",
      "o", "f", " ", "F", "i", "l", "e", " ", "b", " ", "-", "-", "-">>

\* A send folded two files and two images, read by two processFiles calls
C22_Witness ==
    \E i \in 1..Len(sends) :
        /\ sends[i].userMessage.content = Hi \o TwoFileBlocks
        /\ sends[i].userMessage.images = <<ImageUri, ImageUriB>>
        /\ attachments = <<>>
        /\ \A u \in 1..Len(uploads) : uploads[u].settled = DOMAIN uploads[u].files

\* C23: the attachments read by a processFiles call reach the composer's
\* pending list in one update, made when the last of its reads has ended:
\* while a read is outstanding none of the call's attachments is pending,
\* the update appends the attachments of all reads that succeeded, a read
\* that failed adds nothing, and the list grows in no other step.
C23_BatchCommittedAtomically ==
    /\ [](\A u \in 1..Len(uploads) :
            Cardinality(uploads[u].settled) < Len(uploads[u].files) =>
                \A k \in 1..Len(attachments) : attachments[k].id[1] # u)
    /\ [][/\ \A u \in 1..Len(uploads) :
               LET before == uploads[u]
                   after == uploads'[u]
                   n == Len(before.files)
               IN  /\ (Cardinality(before.settled) < n /\
                       Cardinality(after.settled) = n) =>
                          /\ attachments' = attachments \o after.newAttachments
                          /\ {a.id : a \in Range(after.newAttachments)} =
                                {<<u, k>> : k \in (1..n) \ after.failed}
                   /\ \A k \in after.failed \ before.failed :
                          after.newAttachments = before.newAttachments
          /\ Len(attachments') > Len(attachments) =>
               \E u \in 1..Len(uploads) :
                   /\ Cardinality(uploads[u].settled) < Len(uploads[u].files)
                   /\ Cardinality(uploads'[u].settled) = Len(uploads[u].files)]_vars

\* One call was committed without the file whose read failed, while another
\* call has read one file and waits for the other
C23_Witness ==
    \E u, v \in 1..Len(uploads) :
        /\ uploads[u].settled = DOMAIN uploads[u].files
        /\ uploads[u].failed # {}
        /\ uploads[u].newAttachments # <<>>
        /\ attachments = uploads[u].newAttachments
        /\ uploads[v].settled # {}
        /\ uploads[v].settled # DOMAIN uploads[v].files
        /\ uploads[v].newAttachments # <<>>

\* C24: the request of a send is the history window of the conversation as
\* it was before the turn, entry by entry, followed by the turn's user
\* message as last entry; neither the turn's user message nor its streaming
\* stub is in the window.
C24_RequestIsWindowPlusUser ==
    [][Len(sends') > Len(sends) =>
        LET s == sends'[Len(sends')]
            msgs == MessagesOf(conversations', s.convId)
            n == Len(msgs)
            prior == SubSeq(msgs, 1, n - 2)
            w == s.window
        IN  /\ n >= 2
            /\ msgs[n - 1] = s.userMessage
            /\ msgs[n].id = s.messageId
            /\ msgs[n].status = "streaming"
            /\ w = SliceLast(SelectSeq(prior, IsValidHistory), HistoryLimit)
            /\ \A k \in 1..Len(w) : w[k].id \notin {s.userMessage.id, s.messageId}
            /\ Len(s.request) = Len(w) + 1
            /\ \A k \in 1..Len(w) :
                  /\ s.request[k].role = w[k].role
                  /\ s.request[k] = RequestEntry(w[k])
            /\ s.request[Len(w) + 1] = RequestEntry(s.userMessage)
            /\ s.request[Len(w) + 1].role = "user"
            /\ \A k \in 1..Len(s.request) :
                  ~(s.request[k].role = "assistant" /\ s.request[k].content = <<>>)]_vars

\* The second turn of a conversation was sent with the first turn as history
C24_Witness ==
    \E i \in 1..Len(sends) :
        /\ Len(sends[i].window) = 2
        /\ sends[i].window[1].role = "user"
        /\ sends[i].window[2].role = "assistant"
        /\ sends[i].window[2].content = Hel \o Lo
        /\ sends[i].request =
              <<[role |-> "user", content |-> Hi],
                [role |-> "assistant", content |-> Hel \o Lo],
                [role |-> "user", content |-> Hi]>>

\* The fences of a text taken as the renderer pairs them, a fence unwrapped
\* when its trimmed interior is one image reference and nothing else
RECURSIVE UnwrapSingleFrom(_, _)
UnwrapSingleFrom(text, q) ==
    LET opens == {o \in q..Len(text) : MatchAt(text, o, Fence)}
    IN  IF opens = {} THEN SubSeq(text, q, Len(text))
        ELSE LET o == Least(opens)
                 i0 == InsideStart(text, o + Len(Fence))
                 closes == {c \in i0..Len(text) : MatchAt(text, c, Fence)}
             IN  IF closes = {} THEN SubSeq(text, q, Len(text))
                 ELSE LET c == Least(closes)
                          inside == Trim(SubSeq(text, i0, c - 1))
                      IN  SubSeq(text, q, o - 1) \o
                          (IF IsImageReferenceSingle(inside) THEN inside
                           ELSE SubSeq(text, o, c + Len(Fence) - 1)) \o
                          UnwrapSingleFrom(text, c + Len(Fence))

\* C25: in every text span of a rendered body a fenced region is replaced
\* by its trimmed interior exactly when that interior is a single image
\* reference ![alt](url); every other fenced region (code, prose with an
\* image, two image references) is left as it is.
C25_UnwrapExactlySingleImage ==
    seg.pc = "rendered" =>
        \A k \in 1..Len(seg.parts) :
            FileMatch(seg.parts[k]).found \/
            UnwrapFences(seg.parts[k]) = UnwrapSingleFrom(seg.parts[k], 1)

\* The closing delimiter of a span that carries the name of its opening one:
\* the name and the text between the delimiters
SameName(span) ==
    LET n0 == Len(FileOpen) + 1
        ls == {l \in 0..Len(span) :
                  /\ MatchAt(span, n0 + l, OpenClose)
                  /\ NoLineBreak(span, n0, n0 + l - 1)
                  /\ EndsWith(span, EndOpen \o SubSeq(span, n0, n0 + l - 1) \o DelimClose)
                  /\ Len(span) >= Len(FileOpen) + 2 * l + Len(OpenClose) +
                                  Len(EndOpen) + Len(DelimClose)}
    IN  IF ~StartsWith(span, FileOpen) \/ ls = {} THEN NoMatch
        ELSE LET l == Least(ls)
                 b == n0 + l + Len(OpenClose)
             IN  [found |-> TRUE, name |-> SubSeq(span, n0, n0 + l - 1),
                  body |-> SubSeq(span, b,
                               Len(span) - Len(EndOpen) - l - Len(DelimClose))]

\* A file block as linear text
BlockText(block) ==
    IF block.kind = "FileBlock"
    THEN FileOpen \o block.name \o OpenClose \o block.text \o EndOpen \o
         block.name \o DelimClose
    ELSE block.text

\* C26: each span the renderer cuts out gives one block; when the span is
\* "--- File: name ---", a body and "--- End of File name ---" with the same
\* name the block is FileBlock{name, body}; a FileBlock is produced only
\* from text that holds its two delimiters with the one name around its
\* body; the text around the spans gives ProseBlocks only. The body that is
\* just the a.txt/hello block gives FileBlock{a.txt, hello} and otherwise
\* only ProseBlocks of the empty text before and after it.
C26_FileBlockOnlyWhenNamesMatch ==
    seg.pc = "rendered" =>
        /\ Len(seg.blocks) = Len(seg.parts)
        /\ \A k \in 1..Len(seg.parts) :
              LET d == SameName(seg.parts[k])
                  block == seg.blocks[k]
              IN  /\ k % 2 = 1 => block.kind = "ProseBlock"
                  /\ (k % 2 = 0 /\ d.found) => block = FileBlock(d.name, d.body)
                  /\ block.kind = "FileBlock" =>
                        \E p \in 1..Len(seg.parts[k]) :
                            MatchAt(seg.parts[k], p, BlockText(block))
        /\ seg.content = FileBlockA =>
              seg.blocks = <<ProseBlock(<<>>),
                             FileBlock(<<"a", ".", "t", "x", "t">>,
                                       <<"h", "e", "l", "l", "o">>),
                             ProseBlock(<<>>)>>

\* A body with the a.txt block and a block with two names was rendered
C26_Witness ==
    /\ seg.pc = "rendered"
    /\ seg.content = FileBlockA \o FileBlockMismatch
    /\ seg.parts = <<<<>>, FileBlockA, <<>>, FileBlockMismatch, <<>>>>
    /\ seg.blocks[2].kind = "FileBlock"
    /\ seg.blocks[2].name = <<"a", ".", "t", "x", "t">>
    /\ seg.blocks[4] = ProseBlock(FileBlockMismatch)

\* The blocks joined back into linear text, in order
RECURSIVE Rejoin(_)
Rejoin(blocks) ==
    IF blocks = <<>> THEN <<>>
    ELSE BlockText(Head(blocks)) \o Rejoin(Tail(blocks))

\* C27: rendering the text of the blocks of a rendered body, joined in
\* order, gives the same blocks again.
C27_SegmentationIdempotent ==
    seg.pc = "rendered" =>
        RenderMessageContent(Rejoin(seg.blocks)) = seg.blocks

\* C28: the parts a rendered body is cut into are, in order, text, file
\* span, text, ..., text; each file span begins with the opening and ends
\* with the closing delimiter, and the parts put together are the body.
C28_PartsCoverContent ==
    seg.pc = "rendered" =>
        /\ Flatten(seg.parts) = seg.content
        /\ Len(seg.parts) % 2 = 1
        /\ \A k \in 1..Len(seg.parts) :
              k % 2 = 0 =>
                  /\ StartsWith(seg.parts[k], FileOpen)
                  /\ EndsWith(seg.parts[k], DelimClose)
                  /\ FileBlockEnd(seg.parts[k], 1) = Len(seg.parts[k])
        /\ \A k \in 1..Len(seg.parts) :
              k % 2 = 1 =>
                  \A p \in 1..Len(seg.parts[k]) : FileBlockEnd(seg.parts[k], p) = 0

\* A body of text, a file span and text again was rendered
C28_Witness ==
    /\ seg.pc = "rendered"
    /\ seg.parts = <<Hi, FileBlockA, <<>>>>
    /\ seg.content = Hi \o FileBlockA

\* The complete lines of the text received so far
CompleteLines ==
    IF LastLF = 0 THEN <<>> ELSE Split(SubSeq(Received, 1, LastLF - 1))

\* A line that carries no text: blank, without the "data: " prefix, the
\* [DONE] record, a record without text in its delta, or a record that is
\* no JSON
SilentLine(line) ==
    LET t == Trim(line)
    IN  \/ \A k \in 1..Len(line) : IsWhitespace(line[k])
        \/ Len(t) < 6
        \/ SubSeq(t, 1, 6) # <<"d", "a", "t", "a", ":", " ">>
        \/ t = DataPrefix \o <<"[", "D", "O", "N", "E", "]">>
        \/ t \in {DataPrefix \o JsonRoleOnly, DataPrefix \o JsonContent(<<>>),
                  DataPrefix \o JsonMalformed}

SpeakingLine(line) == ~SilentLine(line)

\* C29: each complete line gives at most one delta; a blank line, a line
\* that after trimming does not begin with "data: ", the [DONE] record and a
\* record without a non-empty text delta give none. The deltas emitted are
\* those of the other lines, one each and in order, and the loop ends only
\* when the source has ended, whatever lines were read.
C29_SilentLinesEmitNothing ==
    /\ \A k \in 1..Len(CompleteLines) :
          /\ Len(LineDeltas(CompleteLines[k])) <= 1
          /\ SilentLine(CompleteLines[k]) => LineDeltas(CompleteLines[k]) = <<>>
    /\ Len(dec.emitted) = Len(SelectSeq(CompleteLines, SpeakingLine))
    /\ dec.emitted = LinesDeltas(SelectSeq(CompleteLines, SpeakingLine))
    /\ dec.done => dec.pos = Len(dec.stream)
    /\ LineDeltas(DataPrefix \o JsonContent(<<>>)) = <<>>
    /\ LineDeltas(<<" ", "\r">>) = <<>>

\* The comment line, the record that is no JSON, a record with text and the
\* [DONE] record were read, and the loop goes on
C29_Witness ==
    /\ dec.stream = StreamRagged
    /\ ~dec.done
    /\ Len(CompleteLines) = 4
    /\ CompleteLines[1] = <<":", "k">>
    /\ CompleteLines[4] = DataPrefix \o DoneSentinel
    /\ dec.emitted = <<Hel>>

\* The [DONE] record is among the lines send i has decoded
DoneReceived(i) ==
    /\ sends[i].chunks >= 1
    /\ \E k \in 1..Len(Split(Body[1])) :
          Split(Body[1])[k] = DataPrefix \o DoneSentinel

C30_State ==
    \A i \in 1..Len(sends) : \A m \in SendMessage(i) :
        /\ Pending(i) => m.status = "streaming"
        /\ sends[i].outcome = "completed" =>
              /\ m.status = "completed"
              /\ sends[i].pc = "done"
        /\ (sends[i].chunks = Len(Body) /\ DoneReceived(i) /\
            sends[i].outcome \in {"pending", "completed"}) =>
              /\ sends[i].applied = <<Hel, Lo>>
              /\ m.content = Hel \o Lo

C30_Step ==
    \A i \in 1..Len(sends) :
        LET before == SendMessage(i)
            after == {m \in Range(MessagesOf(conversations', sends[i].convId)) :
                         m.id = sends[i].messageId}
        IN  /\ (\E m \in before : \E n \in after :
                    m.status = "streaming" /\ n.status = "completed") =>
                  /\ Pending(i)
                  /\ sends'[i].pc = "done"
                  /\ sends'[i].outcome \in {"completed", "aborted"}
                  /\ sends'[i].chunks = sends[i].chunks
            /\ (Pending(i) /\ sends'[i].outcome = "completed") =>
                  \A n \in after : n.status = "completed"
            /\ sends'[i].chunks > sends[i].chunks =>
                  /\ sends'[i].outcome = "pending"
                  /\ \A n \in after : n.status = "streaming"

\* C30: while the source has not ended the assistant message of a send
\* stays streaming, also after the [DONE] record was decoded, and the text
\* of the record that follows [DONE] is appended; the message becomes
\* completed in the step in which the read reports the end of the source
\* (or the send is stopped), after no chunk, one chunk or all chunks.
C30_CompletedAtEndOfSource == [](C30_State) /\ [][C30_Step]_vars

\* One answer ended before any record, another after [DONE] and the record
\* that follows it
C30_Witness ==
    \E i, j \in 1..Len(sends) :
        /\ sends[i].outcome = "completed"
        /\ sends[i].chunks = 0
        /\ sends[j].outcome = "completed"
        /\ DoneReceived(j)
        /\ sends[j].applied = <<Hel, Lo>>
        /\ \E m \in SendMessage(j) : m.status = "completed" /\ m.content = Hel \o Lo

\* C31: whenever an assistant message of any conversation has status
\* streaming the loading flag is set, so that the stop button and not the
\* send button is shown.
C31_StreamingImpliesLoading ==
    \A c \in 1..Len(conversations) :
        \A k \in 1..Len(conversations[c].messages) :
            conversations[c].messages[k].status = "streaming" =>
                isLoading /\ StopButtonShown

\* C32: the active conversation id is none or the id of exactly one
\* conversation of the collection, whatever conversations were created,
\* selected, deleted or created by a send.
C32_ActivePointerValid ==
    /\ activeConvId # Null =>
          Cardinality({k \in 1..Len(conversations) :
                          conversations[k].id = activeConvId}) = 1
    /\ \A k, j \in 1..Len(conversations) :
          conversations[k].id = conversations[j].id => k = j

\* A conversation was created and deleted; the conversation the send then
\* created for itself is the active one
C32_Witness ==
    /\ \A k \in 1..Len(conversations) : conversations[k].id # 1
    /\ \E k \in 1..Len(conversations) : conversations[k].id = activeConvId
    /\ \E i \in 1..Len(sends) :
          /\ sends[i].convId = activeConvId
          /\ sends[i].userMessage.id = sends[i].convId + 1
          /\ sends[i].convId = 2

\* C33 (step): a message that has status completed or error and is still in
\* its conversation after a step has the same content, error text and status.
C33_FinalStep ==
    \A c \in 1..Len(conversations) : \A d \in 1..Len(conversations') :
        conversations[c].id = conversations'[d].id =>
            \A m \in Range(conversations[c].messages) :
            \A n \in Range(conversations'[d].messages) :
                (m.id = n.id /\ m.status \in {"completed", "error"}) =>
                    /\ n.content = m.content
                    /\ n.error = m.error
                    /\ n.status = m.status

\* C33: once a message has a terminal status (completed or error) its content
\* and error text never change again; no delta of its own stream or of any
\* other stream is applied to it after finalization.
C33_FinalizedFrozen == [][C33_FinalStep]_vars

\* The first send was stopped before its stream had delivered everything, the
\* second send of the same conversation has applied its deltas since, and the
\* message of the first send still holds what it held when it was finalized.
C33_Witness ==
    /\ Len(sends) = 2
    /\ sends[1].convId = sends[2].convId
    /\ sends[1].outcome = "aborted"
    /\ sends[1].applied = <<Hel>>
    /\ sends[2].applied = <<Hel, Lo>>
    /\ \E m \in SendMessage(1) : m.status = "completed" /\ m.content = Hel
    /\ \E m \in SendMessage(2) : m.content = Hel \o Lo

\* The messages at positions 2j-1 and 2j of a list are the user message and
\* the assistant message of one send
IsTurn(msgs, j) ==
    /\ msgs[2 * j - 1].role = "user"
    /\ msgs[2 * j].role = "assistant"
    /\ \E i \in 1..Len(sends) :
          /\ sends[i].userMessage.id = msgs[2 * j - 1].id
          /\ sends[i].messageId = msgs[2 * j].id

\* C34: in every reachable state the message list of each conversation is a
\* sequence of turns: its length is even, and each pair of positions holds a
\* user message followed by the assistant message created by the same send.
C34_TurnStructure ==
    \A c \in 1..Len(conversations) :
        LET msgs == conversations[c].messages
        IN  /\ Len(msgs) % 2 = 0
            /\ \A j \in 1..(Len(msgs) \div 2) : IsTurn(msgs, j)

\* Two sends overlapped in one conversation, the first ended in error and the
\* second is still streaming: the list holds two turns
C34_Witness ==
    /\ Len(sends) = 2
    /\ sends[1].outcome = "error"
    /\ sends[2].pc = "read"
    /\ \E c \in 1..Len(conversations) :
          /\ Len(conversations[c].messages) = 4
          /\ conversations[c].messages[2].status = "error"
          /\ conversations[c].messages[4].status = "streaming"

\* C35 (step): a step of a send whose assistant message is no longer in the
\* collection (the chat was cleared or the conversation deleted) leaves every
\* conversation and every message as it was.
C35_DroppedStep ==
    \A i \in 1..Len(sends) :
        (Pending(i) /\ SendMessage(i) = {} /\ sends'[i] # sends[i]) =>
            conversations' = conversations

\* C35: when the chat is cleared or its conversation deleted while a stream
\* for it is in flight, the deltas and the final status update that arrive
\* afterwards are dropped: they do not re-insert the removed message, do not
\* re-create the deleted conversation and change no other message.
C35_LateUpdatesDropped == [][C35_DroppedStep]_vars

\* The conversation of the first send was deleted and the chat of the second
\* send was cleared while their streams were in flight; both streams then ran
\* to their end
C35_Witness ==
    /\ Len(sends) = 2
    /\ \A i \in 1..2 : /\ sends[i].outcome = "completed"
                       /\ sends[i].applied = <<Hel, Lo>>
                       /\ SendMessage(i) = {}
    /\ FindConv(conversations, sends[1].convId) = 0
    /\ FindConv(conversations, sends[2].convId) # 0

\* The file blocks among the blocks of a rendered message, in order
IsFileBlock(b) == b.kind = "FileBlock"

FileBlocksOf(blocks) == SelectSeq(blocks, IsFileBlock)

\* One FileBlock{name, body} per file attachment, in attachment order
ExpectedFileBlocks(atts) ==
    LET files == SelectSeq(atts, IsFile)
    IN  [k \in 1..Len(files) |-> FileBlock(files[k].name, files[k].content)]

\* C36: round trip of file attachments: for every sent user message built
\* from text and file attachments, segmenting the message content yields, in
\* attachment order, exactly one FileBlock with the name and the content of
\* each attachment, whatever the file name and the file content.
C36_AttachmentRoundTrip ==
    seg.pc = "rendered" =>
        FileBlocksOf(seg.blocks) = ExpectedFileBlocks(sends[1].currentAttachments)

\* The round trip for the files whose text has no line that reads like a
\* closing delimiter
C36_PlainRoundTrip ==
    (/\ seg.pc = "rendered"
     /\ \A k \in 1..Len(sends[1].currentAttachments) :
           IsFile(sends[1].currentAttachments[k]) =>
               Occurrences(FileEndOpen, sends[1].currentAttachments[k].content) = 0)
    => FileBlocksOf(seg.blocks) = ExpectedFileBlocks(sends[1].currentAttachments)

\* C37: in every transport request the message list has no two adjacent
\* entries with the same role: user and assistant entries alternate and the
\* list ends with the current user message, also after earlier turns that
\* ended in error, were aborted before any delta, or are still streaming.
C37_RequestRolesAlternate ==
    \A i \in 1..Len(sends) :
        LET req == sends[i].request
        IN  /\ req[Len(req)] = RequestEntry(sends[i].userMessage)
            /\ \A k \in 1..(Len(req) - 1) : req[k].role # req[k + 1].role

\* What an accepted send leaves when it found no active conversation
C38_Created ==
    LET s == sends'[Len(sends')]
        content == s.userMessage.content
    IN  /\ Len(conversations') = Len(conversations) + 1
        /\ \A k \in 1..Len(conversations) :
              /\ conversations'[k + 1] = conversations[k]
              /\ conversations[k].id # s.convId
        /\ conversations'[1].id = s.convId
        /\ activeConvId' = s.convId
        /\ conversations'[1].messages =
               <<s.userMessage, AssistantMessage(s.messageId)>>
        /\ conversations'[1].title =
               (IF Len(content) > TitleLimit
                THEN SubSeq(content, 1, TitleLimit) \o Ellipsis
                ELSE content)
        /\ s.window = <<>>
        /\ s.request = <<RequestEntry(s.userMessage)>>

\* C38: an accepted send issued while there is no active conversation creates
\* exactly one new conversation at the front of the collection, makes it
\* active, appends the turn to it and derives its title from the user
\* message; its transport request carries an empty history.
C38_SendCreatesConversation ==
    [][(Len(sends') > Len(sends) /\ activeConvId = Null) => C38_Created]_vars

\* The conversation of the first send was deleted, and the second send made
\* its own conversation, which is active and titled after its message
C38_Witness ==
    /\ Len(sends) = 2
    /\ sends[1].convId # sends[2].convId
    /\ sends[2].userMessage.id = sends[2].convId + 1
    /\ sends[2].request = <<RequestEntry(sends[2].userMessage)>>
    /\ activeConvId = sends[2].convId
    /\ Len(conversations) = 1
    /\ conversations[1].id = sends[2].convId
    /\ conversations[1].title = sends[2].userMessage.content

PendingIds == {attachments[k].id : k \in 1..Len(attachments)}

FoldedIds ==
    UNION {{sends[i].currentAttachments[k].id :
                k \in 1..Len(sends[i].currentAttachments)} : i \in 1..Len(sends)}

\* The ids of the attachments whose read has ended well, in calls that have
\* committed
CommittedIds ==
    UNION {{uploads[u].newAttachments[k].id :
                k \in 1..Len(uploads[u].newAttachments)} :
           u \in {v \in 1..Len(uploads) :
                     uploads[v].settled = DOMAIN uploads[v].files}}

\* C39 (state): a pending attachment is pending once, it comes from a call
\* that has committed, and it is not in a message that was sent.
C39_State ==
    /\ Cardinality(PendingIds) = Len(attachments)
    /\ PendingIds \subseteq CommittedIds
    /\ PendingIds \cap FoldedIds = {}
    /\ FoldedIds \subseteq CommittedIds

\* C39 (step): the commit of a call keeps every pending attachment and adds
\* the call's attachments behind them; a pending attachment leaves the list
\* only by a send, which folds the whole list into its message, or by the
\* removal of that one attachment.
C39_Step ==
    /\ \A u \in 1..Len(uploads) :
          (uploads[u].settled # DOMAIN uploads[u].files /\
           uploads'[u].settled = DOMAIN uploads[u].files) =>
              /\ SubSeq(attachments', 1, Len(attachments)) = attachments
              /\ {attachments'[k].id : k \in 1..Len(attachments')} =
                     PendingIds \cup {<<u, k>> : k \in uploads'[u].settled \ uploads'[u].failed}
    /\ PendingIds \ {attachments'[k].id : k \in 1..Len(attachments')} # {} =>
          \/ /\ Len(sends') = Len(sends) + 1
             /\ sends'[Len(sends')].currentAttachments = attachments
             /\ attachments' = <<>>
          \/ /\ sends' = sends /\ uploads' = uploads
             /\ \E idx \in 1..Len(attachments) :
                   attachments' = SubSeq(attachments, 1, idx - 1) \o
                                  SubSeq(attachments, idx + 1, Len(attachments))

\* C39: committing an attachment batch never loses other pending
\* attachments: with two batches read concurrently, and with a send or a
\* removal while a batch is still being read, the pending list holds every
\* successfully read attachment of every committed batch exactly once,
\* except those folded into a sent message or removed by the user.
C39_NoAttachmentLost == [](C39_State) /\ [][C39_Step]_vars

\* Two calls read two files each without a failure and committed; a send
\* folded a part of them, one attachment was removed, the rest is pending
C39_Witness ==
    /\ Len(uploads) = 2
    /\ \A u \in 1..2 : /\ uploads[u].settled = DOMAIN uploads[u].files
                       /\ uploads[u].failed = {}
    /\ Len(sends) = 1
    /\ Cardinality(FoldedIds) >= 1
    /\ \E k \in FileIndexes : <<1, k>> \in FoldedIds
    /\ \E k \in FileIndexes : <<2, k>> \in PendingIds
    /\ Cardinality(PendingIds) + Cardinality(FoldedIds) + 1 = Cardinality(CommittedIds)

=============================================================================
